---- MODULE Spec2Model ----
(***************************************************************************)
(* State-machine model of the synchronization and acquisition engine of    *)
(* stock-news-backend: the request deduplicator and the shared browser     *)
(* manager (src/src/helpers/browserManager.js), the logo scrape that uses  *)
(* them, the catalog sync with its retry wrapper                           *)
(* (src/src/services/stockSyncService.js), the news sync                   *)
(* (src/src/services/newsService.js) with its cron schedule                *)
(* (src/src/services/cronJobs.js), the watchlist toggle                    *)
(* (src/src/services/watchlistService.js) and the acquisition of logos     *)
(* from the cache directory or by a scrape                                 *)
(* (src/src/services/stockService.js).                                     *)
(*                                                                         *)
(* Node runs one event loop: the code between two awaits is one atomic     *)
(* step, and the continuations queued by one settled promise run before    *)
(* any timer, I/O or signal callback.  Each action below is one such step. *)
(*                                                                         *)
(* The components share no state but the store, so each has a              *)
(* specification of its own over the common variables: SpecDedup,          *)
(* SpecManager, SpecLifecycle, SpecPages, SpecScrape, SpecRetry,           *)
(* SpecCatalog, SpecNews, SpecCron, SpecTracked, SpecRelevance,            *)
(* SpecNaming, SpecToggle, SpecLogo, SpecBackfill and SpecDownload;        *)
(* SpecDownloadLive is SpecDownload with the fairness that liveness        *)
(* properties need.                                                        *)
(***************************************************************************)
EXTENDS Integers, Sequences, FiniteSets, TLC

(***************************************************************************)
(* Bounds of the model.                                                    *)
(***************************************************************************)
MaxCalls == 3

MaxSessions == 2

MaxReqs == 3

MaxPages == 2

MaxCloses == 2

MaxClosePages == 2

MaxCreates == 1

MaxManagerCloses == 1

MaxScrapes == 2

Keys == {"scrape-logo-AAPL", "scrape-logo-MSFT"}

\* What the operation function passed to execute does when it is called:
\* "async" returns a promise that settles later, "throws" throws in the call.
OpKinds == {"async", "throws"}

VARIABLES
  pendingRequests,  \* RequestDeduplicator.pendingRequests: key -> promise (0: no entry)
  promise,          \* state of the request promise created by the i-th execute call
  call,             \* the execute calls made so far, in order
  running,          \* executions whose operation was invoked and has not completed
  invoked           \* execute calls that invoked their operation function

VARIABLES
  browser,          \* BrowserManager.browser: the held session (0: null)
  initializing,     \* BrowserManager.initializing
  initPromise,      \* BrowserManager.initPromise: the launch awaited (0: null)
  session,          \* the browser sessions puppeteer.launch was asked for
  req,              \* the initialize / getBrowser / createPage calls made so far
  page,             \* the pages opened by browser.newPage()
  closer,           \* the closeBrowser calls made so far
  pclose,           \* the closePage calls made so far
  proc,             \* "running", or "exited" after process.exit(0)
  scrape            \* the scrapeStockLogo calls made so far

dedupVars == <<pendingRequests, promise, call, running, invoked>>

browserVars ==
  <<browser, initializing, initPromise, session, req, page, closer, pclose, proc, scrape>>

VARIABLES
  stocks,           \* the "stocks" table: the stored instruments
  now,              \* the clock read by new Date()
  retry,            \* the retryWithBackoff calls made so far
  catalog           \* the syncAllUSCommonStocks runs made so far

VARIABLES
  userStocks,       \* the "user_stocks" table: the watch relationships
  toggle,           \* the addOrRemoveStock calls made so far
  newsRun,          \* the syncNewsForAllWatchlistStocks runs made so far
  news              \* the "news" table: the stored articles

VARIABLES
  relevance,        \* the isArticleRelevant calls made so far
  saved             \* the files named by downloadAndSaveImage calls so far

VARIABLES
  files,            \* the directory assets/stockLogos: the logo files
  unlinks,          \* the last fs.unlink call for each file: pending, done, failed
  acquire,          \* the logo acquisitions made so far
  logoScrape        \* the scrapeStockLogo calls of the stock services so far

syncVars == <<stocks, now, retry, catalog>>

newsVars == <<userStocks, toggle, newsRun, news>>

logoVars == <<files, unlinks, acquire, logoScrape>>

auxVars == <<relevance, saved, logoVars>>

engineVars == <<syncVars, newsVars, auxVars>>

vars == <<dedupVars, browserVars, engineVars>>

(***************************************************************************)
(* Text.  A JavaScript string is modelled as the sequence of its           *)
(* characters, so that toUpperCase, toLowerCase and trim compute what the  *)
(* code computes.  An absent (null, undefined or empty) text is <<>>.      *)
(***************************************************************************)
LowerChars ==
  <<"a", "b", "c", "d", "e", "f", "g", "h", "i", "j", "k", "l", "m",
    "n", "o", "p", "q", "r", "s", "t", "u", "v", "w", "x", "y", "z">>

UpperChars ==
  <<"A", "B", "C", "D", "E", "F", "G", "H", "I", "J", "K", "L", "M",
    "N", "O", "P", "Q", "R", "S", "T", "U", "V", "W", "X", "Y", "Z">>

IndexIn(c, cs) ==
  IF \E i \in DOMAIN cs : cs[i] = c THEN CHOOSE i \in DOMAIN cs : cs[i] = c ELSE 0

toUpperCase(s) ==
  [i \in DOMAIN s |->
     LET k == IndexIn(s[i], LowerChars) IN IF k = 0 THEN s[i] ELSE UpperChars[k]]

toLowerCase(s) ==
  [i \in DOMAIN s |->
     LET k == IndexIn(s[i], UpperChars) IN IF k = 0 THEN s[i] ELSE LowerChars[k]]

isWhiteSpace(c) == c \in {" ", "\t", "\n"}

RECURSIVE trimStart(_)
trimStart(s) ==
  IF s # <<>> /\ isWhiteSpace(Head(s)) THEN trimStart(Tail(s)) ELSE s

RECURSIVE trimEnd(_)
trimEnd(s) ==
  IF s # <<>> /\ isWhiteSpace(s[Len(s)]) THEN trimEnd(SubSeq(s, 1, Len(s) - 1)) ELSE s

trim(s) == trimEnd(trimStart(s))

(***************************************************************************)
(* Stock sync service (src/src/services/stockSyncService.js)               *)
(***************************************************************************)
MaxRetries == 3

MaxRetryCalls == 1

MaxSyncs == 1

MaxRecords == 2

MaxClock == 1

\* The arguments syncAllUSCommonStocks passes to retryWithBackoff.
CatalogMaxRetries == 3

CatalogRetryDelay == 2000

Delays == {1000, CatalogRetryDelay}

CommonStock == "Common Stock"

\* The instruments in the store when the server starts: rows written by an
\* earlier catalog sync, one of them with a logo.  An absent logo or type is "".
SeedStocks ==
  { [id |-> 1, symbol |-> <<"A">>, displaySymbol |-> <<"A">>,
     description |-> <<"A", "g", "i", "l", "e", "n", "t", " ", "I", "n", "c">>, type |-> CommonStock, exchange |-> "US",
     logo |-> "/assets/stockLogos/A.png", updatedAt |-> 0],
    [id |-> 2, symbol |-> <<"A", "A", "P", "L">>, displaySymbol |-> <<"A", "A", "P", "L">>,
     description |-> <<"A", "p", "p", "l", "e", " ", "I", "n", "c">>, type |-> CommonStock, exchange |-> "US",
     logo |-> "", updatedAt |-> 0] }

\* Records of the upstream symbol listing: a stored symbol in lower case, two
\* spellings of a new symbol that differ in case and surrounding white space,
\* a record without a symbol and a record of another instrument type.
UpstreamRecords ==
  { [symbol |-> <<"a", "a", "p", "l">>, displaySymbol |-> <<"A", "A", "P", "L">>, description |-> <<"A", "p", "p", "l", "e", " ", "I", "n", "c">>,
     type |-> CommonStock],
    [symbol |-> <<"B">>, displaySymbol |-> <<"B">>, description |-> <<>>,
     type |-> CommonStock],
    [symbol |-> <<"b", " ">>, displaySymbol |-> <<"b">>, description |-> <<"B", "a", "r", "n", "e", "s", " ", "C", "o">>,
     type |-> CommonStock],
    [symbol |-> <<>>, displaySymbol |-> <<>>, description |-> <<"N", "o", " ", "S", "y", "m", "b", "o", "l", " ", "L", "t", "d">>,
     type |-> CommonStock],
    [symbol |-> <<"S", "P", "Y">>, displaySymbol |-> <<"S", "P", "Y">>, description |-> <<"S", "p", "d", "r", " ", "T", "r", "u", "s", "t">>,
     type |-> "ETP"] }

Listings == UNION {[1..n -> UpstreamRecords] : n \in 0..MaxRecords}

\* What the upstream answers to one request of the symbol listing: a network
\* error, a status other than 200, a body that does not parse, or a listing.
Responses ==
  {[kind |-> k, stocks |-> <<>>] : k \in {"error", "status", "parse"}}
    \cup {[kind |-> "body", stocks |-> l] : l \in Listings}

RECURSIVE filterCommonStock(_)
filterCommonStock(l) ==
  IF l = <<>> THEN <<>>
  ELSE IF Head(l).type = CommonStock
       THEN <<Head(l)>> \o filterCommonStock(Tail(l))
       ELSE filterCommonStock(Tail(l))

\* fetchAllUSCommonStocks (lines 24-60): the promise resolves with the common
\* stocks of a 200 body and rejects for everything else.
fetchAllUSCommonStocks(response) ==
  IF response.kind = "body"
  THEN [ok |-> TRUE, val |-> filterCommonStock(response.stocks)]
  ELSE [ok |-> FALSE, val |-> <<>>]

InitSync ==
  /\ stocks = SeedStocks
  /\ now = 0
  /\ retry = <<>>
  /\ catalog = <<>>

(***************************************************************************)
(* Logo acquisition (src/src/services/stockService.js and                  *)
(* src/src/services/stockSyncService.js): data                             *)
(***************************************************************************)
MaxAcquires == 2

MaxRedirects == 1

\* LOGO_EXTENSIONS (stockService.js line 21), in the order checkStockLogo
\* tries them.
LOGO_EXTENSIONS == <<".png", ".jpg", ".jpeg", ".svg", ".gif", ".webp">>

AAPL == <<"A", "A", "P", "L">>

\* query.toUpperCase().trim() (stockService.js lines 32, 193).
normalizedQuery(query) == trim(toUpperCase(query))

\* The template `/assets/stockLogos/${normalizedQuery}${ext}` for the file
\* names of the model.
LogoRef(symbol, ext) ==
  CASE symbol = <<"A">> /\ ext = ".png" -> "/assets/stockLogos/A.png"
    [] symbol = <<"A">> /\ ext = ".jpg" -> "/assets/stockLogos/A.jpg"
    [] symbol = AAPL /\ ext = ".png" -> "/assets/stockLogos/AAPL.png"
    [] symbol = AAPL /\ ext = ".jpg" -> "/assets/stockLogos/AAPL.jpg"
    [] OTHER -> "/assets/stockLogos/other"

\* The template `scrape-logo-${stock.symbol}` (stockService.js line 496).
scrapeKey(symbol) ==
  CASE symbol = AAPL -> "scrape-logo-AAPL"
    [] symbol = <<"M", "S", "F", "T">> -> "scrape-logo-MSFT"

\* The files the downloads of the model can write: <<symbol, extension>>.
LogoFiles == {<<"A">>, AAPL} \X {".png", ".jpg"}

\* A file of the directory: absent, partial or complete; gen counts the times
\* it was opened for writing and born is the gen at which it was created.
NoFile == [st |-> "none", gen |-> 0, born |-> 0]

\* What page.evaluate and the lines after it leave in imageSrc: nothing, a
\* base64 data URL of a PNG, a data URL the pattern does not match, or an
\* http(s) URL.
ImageSources == {"none", "data:image/png", "data:image/bad", "http"}

\* What the image server answers: a redirect, a status that is neither 200
\* nor a redirect, a connection error, or 200 with a content type.
ImageResponses == {"redirect", "status", "error", "image/png", "image/jpeg"}

\* The server starts with the logo file its stored logo path names.
InitLogo ==
  /\ files = [f \in LogoFiles |->
               IF f = <<<<"A">>, ".png">> THEN [st |-> "complete", gen |-> 1, born |-> 1]
               ELSE NoFile]
  /\ unlinks = [f \in LogoFiles |-> "none"]
  /\ acquire = <<>>
  /\ logoScrape = <<>>

(***************************************************************************)
(* isArticleRelevant (src/src/services/newsService.js, lines 172-206):     *)
(* the texts and instruments it is applied to                              *)
(***************************************************************************)
MaxRelevanceCalls == 1

Headlines ==
  { <<"A", " ", "g", "r", "e", "a", "t", " ", "d", "a", "y", " ", "f", "o", "r", " ", "m", "a", "r", "k", "e", "t", "s">>,
    <<"A", "p", "p", "l", "e", " ", "u", "n", "v", "e", "i", "l", "s", " ", "n", "e", "w", " ", "i", "P", "h", "o", "n", "e">>,
    <<"A", "A", "P", "L", " ", "u", "p">>,
    <<"S", "n", "a", "p", "p", "l", "e", " ", "s", "a", "l", "e", "s">>,
    <<"B", "a", "n", "a", "n", "a", " ", "d", "a", "y">>,
    <<"3", "M", " ", "C", "o", " ", "b", "e", "a", "t", "s">>,
    <<"M", "M", "M", " ", "r", "i", "s", "e", "s">>,
    <<"a", "a", "p", "l", "'", "s", " ", "d", "a", "y">>,
    <<"X", "A", "A", "P", "L">>,
    <<"B", "R", "K", ".", "B", " ", "g", "a", "i", "n", "s">>,
    <<"M", "a", "r", "k", "e", "t", "s">>,
    <<>> }

Summaries ==
  { <<>>,
    <<"A", "g", "i", "l", "e", "n", "t">>,
    <<"s", "o", "l", "d", " ", "b", "y", " ", "A">>,
    <<"I", "n", "c", " ", "r", "e", "s", "u", "l", "t", "s">> }

\* The instruments: a one-letter ticker, a ticker with a company name, a
\* description of a short token and a suffix word, a ticker with a
\* punctuation mark, a name with a non-word character, and no description.
Instruments ==
  { [symbol |-> <<"A">>, description |-> <<"A", "g", "i", "l", "e", "n", "t", " ", "T", "e", "c", "h", "n", "o", "l", "o", "g", "i", "e", "s", " ", "I", "n", "c">>],
    [symbol |-> <<"A", "A", "P", "L">>, description |-> <<"A", "p", "p", "l", "e", " ", "I", "n", "c">>],
    [symbol |-> <<"M", "M", "M">>, description |-> <<"3", "M", " ", "C", "o">>],
    [symbol |-> <<"B", "R", "K", ".", "B">>, description |-> <<"B", "e", "r", "k", "s", "h", "i", "r", "e", " ", "H", "a", "t", "h", "a", "w", "a", "y", " ", "I", "n", "c">>],
    [symbol |-> <<"T">>, description |-> <<"A", "T", "&", "T", " ", "I", "n", "c">>],
    [symbol |-> <<"A">>, description |-> <<>>] }

InitRelevance == relevance = <<>>

(***************************************************************************)
(* The file names of downloadAndSaveImage                                  *)
(* (src/src/services/stockService.js, lines 60-170): data                  *)
(***************************************************************************)
MaxDownloads == 1

\* The content-type header of a 200 answer; <<>> is a header that is absent
\* or empty.
ContentTypes ==
  { <<>>,
    <<"i", "m", "a", "g", "e", "/", "p", "n", "g">>,
    <<"i", "m", "a", "g", "e", "/", "j", "p", "e", "g">>,
    <<"i", "m", "a", "g", "e", "/", "j", "p", "g">>,
    <<"i", "m", "a", "g", "e", "/", "s", "v", "g", "+", "x", "m", "l">>,
    <<"i", "m", "a", "g", "e", "/", "g", "i", "f">>,
    <<"i", "m", "a", "g", "e", "/", "w", "e", "b", "p">>,
    <<"i", "m", "a", "g", "e", "/", "a", "v", "i", "f">>,
    <<"I", "M", "A", "G", "E", "/", "P", "N", "G">>,
    <<"a", "p", "p", "l", "i", "c", "a", "t", "i", "o", "n", "/", "o", "c", "t", "e", "t", "-", "s", "t", "r", "e", "a", "m">>,
    <<"b", "i", "n", "a", "r", "y", "/", "o", "c", "t", "e", "t", "-", "s", "t", "r", "e", "a", "m">>,
    <<"t", "e", "x", "t", "/", "h", "t", "m", "l", ";", " ", "c", "h", "a", "r", "s", "e", "t", "=", "u", "t", "f", "-", "8">> }

\* url.pathname of the image URL.
UrlPaths ==
  { <<"/", "l", "o", "g", "o", ".", "p", "n", "g">>,
    <<"/", "l", "o", "g", "o", ".", "j", "p", "g">>,
    <<"/", "l", "o", "g", "o", ".", "J", "P", "E", "G">>,
    <<"/", "l", "o", "g", "o", ".", "s", "v", "g">>,
    <<"/", "l", "o", "g", "o", ".", "g", "i", "f">>,
    <<"/", "l", "o", "g", "o", ".", "w", "e", "b", "p">>,
    <<"/", "l", "o", "g", "o", ".", "b", "m", "p">>,
    <<"/", "l", "o", "g", "o">>,
    <<"/", "l", "o", "g", "o", ".", "j", "p", "g", "/", "r", "a", "w">> }

\* The image sources that begin with data:image/.
DataUrls ==
  { <<"d", "a", "t", "a", ":", "i", "m", "a", "g", "e", "/", "p", "n", "g", ";", "b", "a", "s", "e", "6", "4", ",", "Q", "Q">>,
    <<"d", "a", "t", "a", ":", "i", "m", "a", "g", "e", "/", "j", "p", "e", "g", ";", "b", "a", "s", "e", "6", "4", ",", "Q", "Q">>,
    <<"d", "a", "t", "a", ":", "i", "m", "a", "g", "e", "/", "j", "p", "g", ";", "b", "a", "s", "e", "6", "4", ",", "Q", "Q">>,
    <<"d", "a", "t", "a", ":", "i", "m", "a", "g", "e", "/", "g", "i", "f", ";", "b", "a", "s", "e", "6", "4", ",", "Q", "Q">>,
    <<"d", "a", "t", "a", ":", "i", "m", "a", "g", "e", "/", "w", "e", "b", "p", ";", "b", "a", "s", "e", "6", "4", ",", "Q", "Q">>,
    <<"d", "a", "t", "a", ":", "i", "m", "a", "g", "e", "/", "s", "v", "g", "+", "x", "m", "l", ";", "b", "a", "s", "e", "6", "4", ",", "Q", "Q">>,
    <<"d", "a", "t", "a", ":", "i", "m", "a", "g", "e", "/", "b", "m", "p", ";", "b", "a", "s", "e", "6", "4", ",", "Q", "Q">>,
    <<"d", "a", "t", "a", ":", "i", "m", "a", "g", "e", "/", "a", "v", "i", "f", ";", "b", "a", "s", "e", "6", "4", ",", "Q", "Q">>,
    <<"d", "a", "t", "a", ":", "i", "m", "a", "g", "e", "/", "x", "-", "i", "c", "o", "n", ";", "b", "a", "s", "e", "6", "4", ",", "Q", "Q">>,
    <<"d", "a", "t", "a", ":", "i", "m", "a", "g", "e", "/", "p", "n", "g", ";", "b", "a", "s", "e", "6", "4", ",">>,
    <<"d", "a", "t", "a", ":", "i", "m", "a", "g", "e", "/", "p", "n", "g", ";", "c", "h", "a", "r", "s", "e", "t", "=", "u", "t", "f", "-", "8", ";", "b", "a", "s", "e", "6", "4", ",", "Q", "Q">>,
    <<"d", "a", "t", "a", ":", "i", "m", "a", "g", "e", "/", ";", "b", "a", "s", "e", "6", "4", ",", "Q", "Q">> }

InitSaved == saved = <<>>

(***************************************************************************)
(* News service (src/src/services/newsService.js) and the watchlist        *)
(* toggle (src/src/services/watchlistService.js): data                     *)
(***************************************************************************)
MaxToggles == 2

MaxNewsRuns == 1

MaxArticles == 2

MaxCronRuns == 2

RATE_LIMIT_DELAY_MS == 1100

Users == {"u1", "u2"}

\* The stock ids a caller passes to addOrRemoveStock; 9 is the id of no stock.
StockIds == {1, 2, 9}

WordChars ==
  {LowerChars[i] : i \in DOMAIN LowerChars} \cup {UpperChars[i] : i \in DOMAIN UpperChars}
    \cup {"0", "1", "2", "3", "4", "5", "6", "7", "8", "9", "_"}

\* The articles the upstream returns: an article, the same article with a
\* changed headline, an article with a new id and the URL of the first, an
\* article that names the one-letter ticker, and an article that names
\* nothing.
UpstreamArticles ==
  { [id |-> 1, url |-> "u1", headline |-> <<"A", "A", "P", "L", " ", "u", "p">>, summary |-> <<>>],
    [id |-> 1, url |-> "u1", headline |-> <<"A", "p", "p", "l", "e", " ", "u", "p">>, summary |-> <<>>],
    [id |-> 2, url |-> "u1", headline |-> <<"A", "p", "p", "l", "e", " ", "u", "p">>, summary |-> <<>>],
    [id |-> 3, url |-> "u3", headline |-> <<"B", "u", "y", " ", "A">>, summary |-> <<"A", "g", "i", "l", "e", "n", "t">>],
    [id |-> 4, url |-> "u4", headline |-> <<"M", "a", "r", "k", "e", "t", "s">>, summary |-> <<>>] }

ArticleLists == UNION {[1..n -> UpstreamArticles] : n \in 0..MaxArticles}

\* What the upstream answers to one company-news request: a network error, a
\* status other than 200, a body that does not parse, a JSON value that is no
\* array, or an array of articles.
NewsResponses ==
  {[kind |-> k, articles |-> <<>>] : k \in {"error", "status", "parse", "object"}}
    \cup {[kind |-> "array", articles |-> l] : l \in ArticleLists}

\* fetchCompanyNews (lines 11-46): the promise resolves with the parsed body
\* of a 200 answer and rejects for everything else.
fetchCompanyNews(response) == response.kind \in {"object", "array"}

\* The articles of the day on which two scheduled runs meet: an article that
\* names both instruments, and an article with another id and the same URL.
CronArticles ==
  { [id |-> 5, url |-> "u5", headline |-> <<"A", " ", "A", "A", "P", "L">>, summary |-> <<>>],
    [id |-> 6, url |-> "u5", headline |-> <<"A", "p", "p", "l", "e">>, summary |-> <<>>] }

CronResponses ==
  {[kind |-> "error", articles |-> <<>>]}
    \cup {[kind |-> "array", articles |-> l] :
            l \in UNION {[1..n -> CronArticles] : n \in 0..MaxArticles}}

InitNews ==
  /\ userStocks = {}
  /\ toggle = <<>>
  /\ newsRun = <<>>
  /\ news = {}

(***************************************************************************)
(* RequestDeduplicator                                                     *)
(***************************************************************************)
MapSet(m, k, p) == [m EXCEPT ![k] = p]

MapDelete(m, k) == [m EXCEPT ![k] = 0]

hasPendingRequest(k) == pendingRequests[k] # 0

getPendingCount == Cardinality({k \in Keys : pendingRequests[k] # 0})

\* The executions of key k whose operation is outstanding.
Outstanding(k) == {e \in running : call[e].key = k}

InitDedup ==
  /\ pendingRequests = [k \in Keys |-> 0]
  /\ promise = [i \in 1..MaxCalls |-> "none"]
  /\ call = <<>>
  /\ running = {}
  /\ invoked = {}

\* BrowserManager's constructor (lines 9-13); no session, page or call yet.
InitBrowser ==
  /\ browser = 0
  /\ initializing = FALSE
  /\ initPromise = 0
  /\ session = [s \in 1..MaxSessions |-> "none"]
  /\ req = <<>>
  /\ page = <<>>
  /\ closer = <<>>
  /\ pclose = <<>>
  /\ proc = "running"
  /\ scrape = <<>>

Init ==
  InitDedup /\ InitBrowser /\ InitSync /\ InitNews /\ InitRelevance /\ InitSaved /\ InitLogo

\* The record of the execute call being made: the promise it is given and the
\* executions of its key that are outstanding as it is made.
CallRec(k, kind, p) ==
  [key |-> k, kind |-> kind, got |-> p, during |-> Outstanding(k),
   result |-> "waiting", from |-> 0]

\* execute, lines 171-173: the entry's promise is returned.
joinRequest(k, kind) ==
  /\ call' = Append(call, CallRec(k, kind, pendingRequests[k]))
  /\ UNCHANGED <<pendingRequests, promise, running, invoked>>
  /\ UNCHANGED <<browserVars, engineVars>>

\* execute, lines 176-189.  The async arrow function runs requestFn() in the
\* same step; when requestFn throws in the call, the finally block (delete)
\* runs before the promise is stored (set).
startRequest(k, kind) ==
  LET c == Len(call) + 1
  IN /\ invoked' = invoked \cup {c}
     /\ call' = Append(call, CallRec(k, kind, c))
     /\ IF kind = "throws"
        THEN /\ promise' = [promise EXCEPT ![c] = "rejected"]
             /\ running' = running
             /\ pendingRequests' = MapSet(MapDelete(pendingRequests, k), k, c)
        ELSE /\ promise' = [promise EXCEPT ![c] = "pending"]
             /\ running' = running \cup {c}
             /\ pendingRequests' = MapSet(pendingRequests, k, c)
     /\ UNCHANGED <<browserVars, engineVars>>

\* A mutation of execute: the lookup of the pending entry is missing.
executeWithoutLookup(k, kind) ==
  /\ Len(call) < MaxCalls
  /\ startRequest(k, kind)

\* execute(key, requestFn), up to its return.
execute(k, kind) ==
  /\ Len(call) < MaxCalls
  /\ IF pendingRequests[k] # 0
     THEN joinRequest(k, kind)
     ELSE startRequest(k, kind)

\* The promise returned by requestFn settles: the arrow function resumes,
\* runs the finally block and settles the request promise.
requestSettles(e, outcome) ==
  /\ e \in running
  /\ running' = running \ {e}
  /\ pendingRequests' = MapDelete(pendingRequests, call[e].key)
  /\ promise' = [promise EXCEPT ![e] = outcome]
  /\ UNCHANGED <<call, invoked>>
  /\ UNCHANGED <<browserVars, engineVars>>

\* The caller of execute resumes with the outcome of the promise it was given.
\* The value or error is the one produced by the operation of execution
\* `from`.
callerResumes(c) ==
  /\ c \in 1..Len(call)
  /\ call[c].result = "waiting"
  /\ promise[call[c].got] \in {"fulfilled", "rejected"}
  /\ call' = [call EXCEPT ![c].result = promise[call[c].got], ![c].from = call[c].got]
  /\ UNCHANGED <<pendingRequests, promise, running, invoked>>
  /\ UNCHANGED <<browserVars, engineVars>>

\* clear(): no code of the repository calls it, so it is not part of NextDedup.
clear ==
  /\ pendingRequests' = [k \in Keys |-> 0]
  /\ UNCHANGED <<promise, call, running, invoked>>
  /\ UNCHANGED <<browserVars, engineVars>>

NextDedup ==
  \/ \E k \in Keys, kind \in OpKinds : execute(k, kind)
  \/ \E e \in 1..MaxCalls, outcome \in {"fulfilled", "rejected"} : requestSettles(e, outcome)
  \/ \E c \in 1..MaxCalls : callerResumes(c)

SpecDedup == Init /\ [][NextDedup]_vars

(***************************************************************************)
(* BrowserManager                                                          *)
(***************************************************************************)
\* browser.isConnected() of session s.
isConnected(s) == session[s] = "connected"

\* isBrowserReady(), lines 129-131.
isBrowserReady == browser # 0 /\ isConnected(browser)

\* page.isClosed() of page p.
isClosed(p) == page[p].st = "closed"

\* The launches in flight: puppeteer.launch was called and has not settled.
Launching == {s \in 1..MaxSessions : session[s] = "launching"}

\* The session the next puppeteer.launch call creates.
NextSession == Cardinality({s \in 1..MaxSessions : session[s] # "none"}) + 1

\* A call of initialize, getBrowser or createPage as it is made.  held, inFlight
\* and stale record what the caller found: whether a connected session was
\* held, which launch was in flight, and the disconnected session held (0: none).
ReqRec(kind) ==
  [kind |-> kind, st |-> "called", launch |-> 0, sess |-> 0, ret |-> 0, err |-> 0,
   started |-> FALSE, held |-> isBrowserReady, inFlight |-> Launching,
   stale |-> IF browser # 0 /\ ~isConnected(browser) THEN browser ELSE 0]

\* The caller has session s: initialize and getBrowser return it, createPage
\* (line 97) calls s.newPage().
Continue(r, s) ==
  IF r.kind = "createPage"
  THEN [r EXCEPT !.st = "newPage", !.sess = s]
  ELSE [r EXCEPT !.st = "done", !.sess = s, !.ret = s]

\* The caller's await of the launch throws.
Rejected(r, l) == [r EXCEPT !.st = "failed", !.err = l]

\* Lines 21-23 and 49-51: the held session is returned.
returnBrowser(kind) ==
  /\ req' = Append(req, Continue(ReqRec(kind), browser))
  /\ UNCHANGED <<browser, initializing, initPromise, session>>

\* Lines 26-28 and 54-56: the promise of the launch in flight is returned.
awaitInit(kind) ==
  /\ req' = Append(req, [ReqRec(kind) EXCEPT !.st = "waiting", !.launch = initPromise])
  /\ UNCHANGED <<browser, initializing, initPromise, session>>

\* Lines 31-35 with _initializeBrowser up to its await of puppeteer.launch
\* (lines 67-81).
startInit(kind) ==
  /\ NextSession <= MaxSessions
  /\ initializing' = TRUE
  /\ initPromise' = NextSession
  /\ session' = [session EXCEPT ![NextSession] = "launching"]
  /\ req' = Append(req, [ReqRec(kind) EXCEPT !.st = "waiting", !.launch = NextSession,
                                              !.started = TRUE])
  /\ UNCHANGED browser

\* A mutation of initializeBody: the test of a launch in progress is missing.
initializeNoJoin(kind) ==
  IF browser # 0 /\ isConnected(browser)
  THEN returnBrowser(kind)
  ELSE startInit(kind)

\* initialize(), lines 19-35, up to its await.
initializeBody(kind) ==
  IF browser # 0 /\ isConnected(browser)
  THEN returnBrowser(kind)
  ELSE IF initializing /\ initPromise # 0
       THEN awaitInit(kind)
       ELSE startInit(kind)

\* A mutation of getBrowserBody: the held session is returned without the
\* isConnected() test.
getBrowserNoHealthCheck(kind) ==
  IF browser # 0
  THEN returnBrowser(kind)
  ELSE IF initializing /\ initPromise # 0
       THEN awaitInit(kind)
       ELSE initializeBody(kind)

\* getBrowser(), lines 47-60.
getBrowserBody(kind) ==
  IF browser # 0 /\ isConnected(browser)
  THEN returnBrowser(kind)
  ELSE IF initializing /\ initPromise # 0
       THEN awaitInit(kind)
       ELSE initializeBody(kind)

initialize ==
  /\ proc = "running"
  /\ Len(req) < MaxReqs
  /\ initializeBody("initialize")
  /\ UNCHANGED <<page, closer, pclose, proc>>
  /\ UNCHANGED <<dedupVars, scrape, engineVars>>

getBrowser ==
  /\ proc = "running"
  /\ Len(req) < MaxReqs
  /\ getBrowserBody("getBrowser")
  /\ UNCHANGED <<page, closer, pclose, proc>>
  /\ UNCHANGED <<dedupVars, scrape, engineVars>>

\* createPage(), lines 95-97: await this.getBrowser(), then browser.newPage().
createPage ==
  /\ proc = "running"
  /\ Len(req) < MaxReqs
  /\ getBrowserBody("createPage")
  /\ UNCHANGED <<page, closer, pclose, proc>>
  /\ UNCHANGED <<dedupVars, scrape, engineVars>>

\* A mutation of initializeFinally: the finally block is missing.
initializeNoFinally(l) ==
  /\ initializing' = initializing
  /\ initPromise' = initPromise

\* initialize(), lines 37-40: the finally block.
initializeFinally(l) ==
  /\ initializing' = FALSE
  /\ initPromise' = 0

\* puppeteer.launch settles (lines 71-88), initialize resumes (lines 35-40)
\* and so does every caller that was given the launch's promise.
launchSettles(ok) ==
  /\ proc = "running"
  /\ Launching # {}
  /\ \E l \in Launching :
       /\ session' = [session EXCEPT ![l] = IF ok THEN "connected" ELSE "failed"]
       /\ browser' = IF ok THEN l ELSE browser
       /\ initializeFinally(l)
       /\ req' = [i \in DOMAIN req |->
                    IF req[i].st = "waiting" /\ req[i].launch = l
                    THEN IF ok THEN Continue(req[i], l) ELSE Rejected(req[i], l)
                    ELSE req[i]]
  /\ UNCHANGED <<page, closer, pclose, proc>>
  /\ UNCHANGED <<dedupVars, scrape, engineVars>>

\* The scrapeStockLogo call that made call i of createPage (0: none).
Scraper(i) ==
  IF \E k \in DOMAIN scrape : scrape[k].req = i /\ scrape[k].st = "createPage"
  THEN CHOOSE k \in DOMAIN scrape : scrape[k].req = i /\ scrape[k].st = "createPage"
  ELSE 0

\* browser.newPage() settles (line 97); on success createPage calls
\* page.setViewport (line 99).
newPageSettles(i, ok) ==
  /\ proc = "running"
  /\ i \in DOMAIN req
  /\ req[i].st = "newPage"
  /\ IF ok
     THEN /\ isConnected(req[i].sess)
          /\ Len(page) < MaxPages
          /\ page' = Append(page, [sess |-> req[i].sess, st |-> "open", closed |-> 0,
                                   by |-> Scraper(i)])
          /\ req' = [req EXCEPT ![i].st = "setViewport", ![i].ret = Len(page) + 1]
     ELSE /\ req' = [req EXCEPT ![i].st = "failed"]
          /\ page' = page
  /\ UNCHANGED <<browser, initializing, initPromise, session, closer, pclose, proc>>
  /\ UNCHANGED <<dedupVars, scrape, engineVars>>

\* page.setViewport settles (lines 99-100).
setViewportSettles(i, ok) ==
  /\ proc = "running"
  /\ i \in DOMAIN req
  /\ req[i].st = "setViewport"
  /\ req' = [req EXCEPT ![i].st = IF ok THEN "done" ELSE "failed"]
  /\ UNCHANGED <<browser, initializing, initPromise, session, page, closer, pclose, proc>>
  /\ UNCHANGED <<dedupVars, scrape, engineVars>>

\* The browser process dies or its connection drops.
disconnect(s) ==
  /\ proc = "running"
  /\ session[s] = "connected"
  /\ session' = [session EXCEPT ![s] = "disconnected"]
  /\ UNCHANGED <<browser, initializing, initPromise, req, page, closer, pclose, proc>>
  /\ UNCHANGED <<dedupVars, scrape, engineVars>>

\* closePage(page), lines 107-111, up to its await; p = 0 is a null page.
closePage(p) ==
  /\ proc = "running"
  /\ Len(pclose) < MaxClosePages
  /\ p \in 0..Len(page)
  /\ IF p # 0 /\ ~isClosed(p)
     THEN pclose' = Append(pclose, [page |-> p, st |-> "closing"])
     ELSE pclose' = Append(pclose, [page |-> p, st |-> "noop"])
  /\ UNCHANGED <<browser, initializing, initPromise, session, req, page, closer, proc>>
  /\ UNCHANGED <<dedupVars, scrape, engineVars>>

\* page.close() settles (line 109); closePage has no catch, so a failure of
\* page.close() is the outcome of closePage.
closePageSettles(i, ok) ==
  /\ proc = "running"
  /\ i \in DOMAIN pclose
  /\ pclose[i].st = "closing"
  /\ IF ok
     THEN /\ page' = [page EXCEPT ![pclose[i].page].st = "closed",
                                  ![pclose[i].page].closed = @ + 1]
          /\ pclose' = [pclose EXCEPT ![i].st = "done"]
     ELSE /\ page' = page
          /\ pclose' = [pclose EXCEPT ![i].st = "failed"]
  /\ UNCHANGED <<browser, initializing, initPromise, session, req, closer, proc>>
  /\ UNCHANGED <<dedupVars, scrape, engineVars>>

\* closeBrowser(), lines 117-120, up to its await.  exit tells a call made by
\* a signal handler (lines 138-148), which calls process.exit(0) once
\* closeBrowser has returned.
closeBrowserBody(exit) ==
  /\ proc = "running"
  /\ Len(closer) < MaxCloses
  /\ IF browser # 0
     THEN /\ closer' = Append(closer, [sess |-> browser, st |-> "closing", exit |-> exit])
          /\ proc' = proc
     ELSE /\ closer' = Append(closer, [sess |-> 0, st |-> "noop", exit |-> exit])
          /\ proc' = IF exit THEN "exited" ELSE proc
  /\ UNCHANGED <<browser, initializing, initPromise, session, req, page, pclose>>
  /\ UNCHANGED <<dedupVars, scrape, engineVars>>

closeBrowser == closeBrowserBody(FALSE)

onSIGTERM == closeBrowserBody(TRUE)

onSIGINT == closeBrowserBody(TRUE)

\* browser.close() settles (line 120).  On success closeBrowser sets
\* this.browser = null (line 121) and a signal handler exits (lines 141, 147);
\* on failure the error leaves closeBrowser and the handler.
closeSettles(i, ok) ==
  /\ proc = "running"
  /\ i \in DOMAIN closer
  /\ closer[i].st = "closing"
  /\ IF ok
     THEN /\ session' = [session EXCEPT ![closer[i].sess] = "closed"]
          /\ browser' = 0
          /\ closer' = [closer EXCEPT ![i].st = "done"]
          /\ proc' = IF closer[i].exit THEN "exited" ELSE proc
     ELSE /\ closer' = [closer EXCEPT ![i].st = "failed"]
          /\ UNCHANGED <<session, browser, proc>>
  /\ UNCHANGED <<initializing, initPromise, req, page, pclose>>
  /\ UNCHANGED <<dedupVars, scrape, engineVars>>

(***************************************************************************)
(* scrapeStockLogo over the shared browser (src/unnamed/part_004)          *)
(***************************************************************************)
Queries == {"", "AAPL"}

\* Lines 351-356, the finally block: the call of browserManager.closePage is
\* commented out, so the block closes nothing.
scrapeFinally(i) == UNCHANGED <<page, pclose>>

\* scrapeStockLogo returns out, through its finally block.
scrapeReturns(i, out) ==
  /\ scrape' = [scrape EXCEPT ![i].st = "returned", ![i].out = out]
  /\ scrapeFinally(i)

\* scrapeStockLogo(query), lines 142-150, up to its await of createPage.
scrapeStockLogo(q) ==
  /\ proc = "running"
  /\ Len(scrape) < MaxScrapes
  /\ IF q = ""
     THEN /\ scrape' = Append(scrape, [st |-> "returned", out |-> "null", req |-> 0,
                                       page |-> 0, tab |-> 0])
          /\ UNCHANGED <<browser, initializing, initPromise, session, req>>
     ELSE /\ Len(req) < MaxReqs
          /\ getBrowserBody("createPage")
          /\ scrape' = Append(scrape, [st |-> "createPage", out |-> "none",
                                       req |-> Len(req) + 1, page |-> 0, tab |-> 0])
  /\ UNCHANGED <<page, closer, pclose, proc>>
  /\ UNCHANGED <<dedupVars, engineVars>>

\* createPage has returned or thrown (line 150): the page is kept and
\* page.goto is called (line 158), or the catch block returns null.
scrapePageCreated(i) ==
  /\ proc = "running"
  /\ i \in DOMAIN scrape
  /\ scrape[i].st = "createPage"
  /\ req[scrape[i].req].st \in {"done", "failed"}
  /\ IF req[scrape[i].req].st = "done"
     THEN /\ scrape' = [scrape EXCEPT ![i].st = "goto", ![i].page = req[scrape[i].req].ret]
          /\ UNCHANGED <<page, pclose>>
     ELSE scrapeReturns(i, "null")
  /\ UNCHANGED <<browser, initializing, initPromise, session, req, closer, proc>>
  /\ UNCHANGED <<dedupVars, engineVars>>

\* Navigation and extraction (lines 158-225): they throw (a navigation error
\* or timeout), find no image, or find one, and then getBrowser is called.
scrapeNavigated(i, r) ==
  /\ proc = "running"
  /\ i \in DOMAIN scrape
  /\ scrape[i].st = "goto"
  /\ IF r = "found"
     THEN /\ Len(req) < MaxReqs
          /\ getBrowserBody("getBrowser")
          /\ scrape' = [scrape EXCEPT ![i].st = "getBrowser", ![i].req = Len(req) + 1]
          /\ UNCHANGED <<page, pclose>>
     ELSE /\ scrapeReturns(i, "null")
          /\ UNCHANGED <<browser, initializing, initPromise, session, req>>
  /\ UNCHANGED <<closer, proc>>
  /\ UNCHANGED <<dedupVars, engineVars>>

\* getBrowser has returned or thrown (line 225).
scrapeGotBrowser(i) ==
  /\ proc = "running"
  /\ i \in DOMAIN scrape
  /\ scrape[i].st = "getBrowser"
  /\ req[scrape[i].req].st \in {"done", "failed"}
  /\ IF req[scrape[i].req].st = "done"
     THEN /\ scrape' = [scrape EXCEPT ![i].st = "menu"]
          /\ UNCHANGED <<page, pclose>>
     ELSE scrapeReturns(i, "null")
  /\ UNCHANGED <<browser, initializing, initPromise, session, req, closer, proc>>
  /\ UNCHANGED <<dedupVars, engineVars>>

\* The context-menu flow (lines 226-334): it throws, or the image opens in a
\* new tab, which is then closed (line 328), or in the page itself; without a
\* new tab the URL is empty (null is returned) or the download starts.
scrapeMenu(i, r) ==
  /\ proc = "running"
  /\ i \in DOMAIN scrape
  /\ scrape[i].st = "menu"
  /\ CASE r = "newTab" ->
            /\ isConnected(req[scrape[i].req].ret)
            /\ Len(page) < MaxPages
            /\ page' = Append(page, [sess |-> req[scrape[i].req].ret, st |-> "open",
                                     closed |-> 0, by |-> i])
            /\ scrape' = [scrape EXCEPT ![i].st = "closeTab", ![i].tab = Len(page) + 1]
            /\ pclose' = pclose
       [] r = "sameTab" ->
            /\ scrape' = [scrape EXCEPT ![i].st = "download"]
            /\ UNCHANGED <<page, pclose>>
       [] OTHER -> scrapeReturns(i, "null")
  /\ UNCHANGED <<browser, initializing, initPromise, session, req, closer, proc>>
  /\ UNCHANGED <<dedupVars, engineVars>>

\* imagePage.close() settles (line 328).
scrapeTabClosed(i, ok) ==
  /\ proc = "running"
  /\ i \in DOMAIN scrape
  /\ scrape[i].st = "closeTab"
  /\ IF ok
     THEN /\ page' = [page EXCEPT ![scrape[i].tab].st = "closed",
                                  ![scrape[i].tab].closed = @ + 1]
          /\ scrape' = [scrape EXCEPT ![i].st = "download"]
          /\ pclose' = pclose
     ELSE scrapeReturns(i, "null")
  /\ UNCHANGED <<browser, initializing, initPromise, session, req, closer, proc>>
  /\ UNCHANGED <<dedupVars, engineVars>>

\* Lines 331-350: the URL is empty, or downloadAndSaveImage saves the image,
\* yields null or throws.
scrapeDownloaded(i, r) ==
  /\ proc = "running"
  /\ i \in DOMAIN scrape
  /\ scrape[i].st = "download"
  /\ scrapeReturns(i, IF r = "saved" THEN "saved" ELSE "null")
  /\ UNCHANGED <<browser, initializing, initPromise, session, req, closer, proc>>
  /\ UNCHANGED <<dedupVars, engineVars>>

\* The session manager under its callers: initialize, getBrowser, createPage
\* and closeBrowser calls, launches settling and sessions dropping.
NextManager ==
  \/ initialize
  \/ getBrowser
  \/ createPage
  \/ \E ok \in BOOLEAN : launchSettles(ok)
  \/ \E s \in 1..MaxSessions : disconnect(s)
  \/ (Len(closer) < MaxManagerCloses /\ closeBrowser)
  \/ \E i \in 1..MaxCloses, ok \in BOOLEAN : closeSettles(i, ok)

SpecManager == Init /\ [][NextManager]_vars

\* The session's life up to the exit of the process: sessions are obtained,
\* closed by closeBrowser calls and by the signal handlers.
NextLifecycle ==
  \/ getBrowser
  \/ \E ok \in BOOLEAN : launchSettles(ok)
  \/ \E s \in 1..MaxSessions : disconnect(s)
  \/ closeBrowser
  \/ onSIGTERM
  \/ onSIGINT
  \/ \E i \in 1..MaxCloses, ok \in BOOLEAN : closeSettles(i, ok)

SpecLifecycle == Init /\ [][NextLifecycle]_vars

\* Pages: createPage calls run to their end and pages are closed by closePage.
NextPages ==
  \/ (Len(req) < MaxCreates /\ createPage)
  \/ \E ok \in BOOLEAN : launchSettles(ok)
  \/ \E i \in 1..MaxReqs, ok \in BOOLEAN : newPageSettles(i, ok)
  \/ \E i \in 1..MaxReqs, ok \in BOOLEAN : setViewportSettles(i, ok)
  \/ \E s \in 1..MaxSessions : disconnect(s)
  \/ \E p \in 0..MaxPages : closePage(p)
  \/ \E i \in 1..MaxClosePages, ok \in BOOLEAN : closePageSettles(i, ok)

SpecPages == Init /\ [][NextPages]_vars

\* Logo scrapes over the shared session.
NextScrape ==
  \/ \E q \in Queries : scrapeStockLogo(q)
  \/ \E ok \in BOOLEAN : launchSettles(ok)
  \/ \E i \in 1..MaxReqs, ok \in BOOLEAN : newPageSettles(i, ok)
  \/ \E i \in 1..MaxReqs, ok \in BOOLEAN : setViewportSettles(i, ok)
  \/ \E s \in 1..MaxSessions : disconnect(s)
  \/ \E i \in 1..MaxScrapes : scrapePageCreated(i)
  \/ \E i \in 1..MaxScrapes, r \in {"throws", "notFound", "found"} : scrapeNavigated(i, r)
  \/ \E i \in 1..MaxScrapes : scrapeGotBrowser(i)
  \/ \E i \in 1..MaxScrapes, r \in {"throws", "newTab", "sameTab"} : scrapeMenu(i, r)
  \/ \E i \in 1..MaxScrapes, ok \in BOOLEAN : scrapeTabClosed(i, ok)
  \/ \E i \in 1..MaxScrapes, r \in {"noUrl", "saved", "null", "throws"} : scrapeDownloaded(i, r)

SpecScrape == Init /\ [][NextScrape]_vars

(***************************************************************************)
(* retryWithBackoff and syncAllUSCommonStocks                              *)
(* (src/src/services/stockSyncService.js)                                  *)
(***************************************************************************)
RECURSIVE Pow2(_)
Pow2(n) == IF n = 0 THEN 1 ELSE 2 * Pow2(n - 1)

\* retryWithBackoff up to its first await (lines 110-115): attempt 0 has
\* called fn.  owner is the catalog run that made the call, 0 for a call of
\* its own.  The error thrown by the k-th call of fn is named k.
RetryRec(owner, maxRetries, delay) ==
  [owner |-> owner, maxRetries |-> maxRetries, delay |-> delay, attempt |-> 0,
   pc |-> "calling", outcomes |-> <<>>, waits |-> <<>>, lastError |-> 0,
   result |-> <<>>, error |-> 0]

\* A mutation of retryAfterCall whose loop gives up one attempt early.
retryAfterCallOneAttemptShort(r, out) ==
  LET k == Len(r.outcomes) + 1
      r1 == [r EXCEPT !.outcomes = Append(@, out)]
  IN IF out.ok
     THEN [r1 EXCEPT !.pc = "returned", !.result = out.val]
     ELSE IF r.attempt + 1 < r.maxRetries
          THEN [r1 EXCEPT !.lastError = k, !.pc = "waiting",
                          !.waits = Append(@, r.delay * Pow2(r.attempt))]
          ELSE [r1 EXCEPT !.lastError = k, !.pc = "thrown", !.error = k]

\* A mutation of retryAfterCall whose backoff grows linearly.
retryAfterCallLinearBackoff(r, out) ==
  LET k == Len(r.outcomes) + 1
      r1 == [r EXCEPT !.outcomes = Append(@, out)]
  IN IF out.ok
     THEN [r1 EXCEPT !.pc = "returned", !.result = out.val]
     ELSE IF r.attempt < r.maxRetries
          THEN [r1 EXCEPT !.lastError = k, !.pc = "waiting",
                          !.waits = Append(@, r.delay * (r.attempt + 1))]
          ELSE [r1 EXCEPT !.lastError = k, !.pc = "thrown", !.error = k]

\* The loop body once the awaited call has settled with out (lines 115-127):
\* return its value, or remember the error and either start the backoff timer
\* or, when attempt = maxRetries, leave the loop and throw lastError.
retryAfterCall(r, out) ==
  LET k == Len(r.outcomes) + 1
      r1 == [r EXCEPT !.outcomes = Append(@, out)]
  IN IF out.ok
     THEN [r1 EXCEPT !.pc = "returned", !.result = out.val]
     ELSE IF r.attempt < r.maxRetries
          THEN [r1 EXCEPT !.lastError = k, !.pc = "waiting",
                          !.waits = Append(@, r.delay * Pow2(r.attempt))]
          ELSE [r1 EXCEPT !.lastError = k, !.pc = "thrown", !.error = k]

\* upsertStock's canonical symbol (line 79).
normalizedSymbol(stockData) == trim(toUpperCase(stockData.symbol))

\* A mutation of upsertStock that keys the row on the symbol as received.
upsertStockRawSymbol(table, stockData, at) ==
  LET sym == stockData.symbol
      display == IF stockData.displaySymbol # <<>> THEN stockData.displaySymbol ELSE sym
  IN IF \E row \in table : row.symbol = sym
     THEN { IF row.symbol = sym
            THEN [row EXCEPT !.displaySymbol = display,
                             !.description = stockData.description,
                             !.type = stockData.type,
                             !.exchange = "US",
                             !.updatedAt = at]
            ELSE row : row \in table }
     ELSE table \cup
            { [id |-> Cardinality(table) + 1, symbol |-> sym,
               displaySymbol |-> display, description |-> stockData.description,
               type |-> stockData.type, exchange |-> "US", logo |-> "",
               updatedAt |-> at] }

\* A mutation of upsertStock whose update branch also writes logo: null.
upsertStockClearsLogo(table, stockData, at) ==
  LET sym == normalizedSymbol(stockData)
      display == IF stockData.displaySymbol # <<>> THEN stockData.displaySymbol ELSE sym
  IN IF \E row \in table : row.symbol = sym
     THEN { IF row.symbol = sym
            THEN [row EXCEPT !.displaySymbol = display,
                             !.description = stockData.description,
                             !.type = stockData.type,
                             !.exchange = "US",
                             !.logo = "",
                             !.updatedAt = at]
            ELSE row : row \in table }
     ELSE table \cup
            { [id |-> Cardinality(table) + 1, symbol |-> sym,
               displaySymbol |-> display, description |-> stockData.description,
               type |-> stockData.type, exchange |-> "US", logo |-> "",
               updatedAt |-> at] }

\* prisma.stock.upsert as upsertStock calls it (lines 82-98): the row whose
\* symbol is the canonical symbol is updated, or a row is created.  at is the
\* value of new Date() when the call was made.
upsertStock(table, stockData, at) ==
  LET sym == normalizedSymbol(stockData)
      display == IF stockData.displaySymbol # <<>> THEN stockData.displaySymbol ELSE sym
  IN IF \E row \in table : row.symbol = sym
     THEN { IF row.symbol = sym
            THEN [row EXCEPT !.displaySymbol = display,
                             !.description = stockData.description,
                             !.type = stockData.type,
                             !.exchange = "US",
                             !.updatedAt = at]
            ELSE row : row \in table }
     ELSE table \cup
            { [id |-> Cardinality(table) + 1, symbol |-> sym,
               displaySymbol |-> display, description |-> stockData.description,
               type |-> stockData.type, exchange |-> "US", logo |-> "",
               updatedAt |-> at] }

CatalogRec(r) ==
  [pc |-> "fetching", retry |-> r, stocks |-> <<>>, i |-> 0, at |-> 0,
   stats |-> [fetched |-> 0, upserted |-> 0, failed |-> 0, errors |-> <<>>],
   error |-> 0, attempted |-> <<>>, failedAt |-> <<>>, writes |-> 0]

\* A mutation of upsertLoop without the try/catch around upsertStock: a record
\* without a symbol ends the run.
RECURSIVE upsertLoopAbortsOnFailure(_)
upsertLoopAbortsOnFailure(c) ==
  IF c.i > Len(c.stocks)
  THEN [c EXCEPT !.pc = "resolved"]
  ELSE LET stockData == c.stocks[c.i]
           c1 == [c EXCEPT !.attempted = Append(@, c.i)]
       IN IF stockData.symbol = <<>>
          THEN [c1 EXCEPT !.pc = "rejected", !.failedAt = Append(@, c.i)]
          ELSE [c1 EXCEPT !.pc = "upserting", !.at = now]

\* The upsert loop from record i up to its next await (lines 157-188).  A
\* record without a symbol makes upsertStock throw before any store call; the
\* catch counts it and the loop goes on.  After the last record the run
\* resolves with stats.
RECURSIVE upsertLoop(_)
upsertLoop(c) ==
  IF c.i > Len(c.stocks)
  THEN [c EXCEPT !.pc = "resolved"]
  ELSE LET stockData == c.stocks[c.i]
           c1 == [c EXCEPT !.attempted = Append(@, c.i)]
       IN IF stockData.symbol = <<>>
          THEN upsertLoop([c1 EXCEPT
                 !.i = @ + 1,
                 !.failedAt = Append(@, c.i),
                 !.stats.failed = @ + 1,
                 !.stats.errors = Append(@, [symbol |-> stockData.symbol,
                                            error |-> "Stock symbol is required"])])
          ELSE [c1 EXCEPT !.pc = "upserting", !.at = now]

\* syncAllUSCommonStocks once retryWithBackoff has settled (lines 147-192).
afterFetch(c, r) ==
  IF r.pc = "returned"
  THEN upsertLoop([c EXCEPT !.stocks = r.result,
                            !.stats.fetched = Len(r.result),
                            !.i = 1])
  ELSE [c EXCEPT !.pc = "rejected", !.error = r.error]

\* A call of retryWithBackoff on its own.
retryWithBackoff(maxRetries, delay) ==
  /\ Len(retry) < MaxRetryCalls
  /\ retry' = Append(retry, RetryRec(0, maxRetries, delay))
  /\ UNCHANGED <<stocks, now, catalog>>
  /\ UNCHANGED <<dedupVars, browserVars, newsVars, auxVars>>

\* syncAllUSCommonStocks up to its first await (lines 134-151).
syncAllUSCommonStocks ==
  /\ Len(catalog) < MaxSyncs
  /\ retry' = Append(retry, RetryRec(Len(catalog) + 1, CatalogMaxRetries, CatalogRetryDelay))
  /\ catalog' = Append(catalog, CatalogRec(Len(retry) + 1))
  /\ UNCHANGED <<stocks, now>>
  /\ UNCHANGED <<dedupVars, browserVars, newsVars, auxVars>>

\* The upstream answers the request made by the i-th retryWithBackoff call.
fnSettles(i, response) ==
  /\ i \in DOMAIN retry
  /\ retry[i].pc = "calling"
  /\ LET r == retryAfterCall(retry[i], fetchAllUSCommonStocks(response))
     IN /\ retry' = [retry EXCEPT ![i] = r]
        /\ catalog' = IF r.owner = 0 \/ r.pc = "waiting"
                      THEN catalog
                      ELSE [catalog EXCEPT ![r.owner] = afterFetch(@, r)]
  /\ UNCHANGED <<stocks, now>>
  /\ UNCHANGED <<dedupVars, browserVars, newsVars, auxVars>>

\* The backoff timer fires (line 122): the loop goes to its next attempt and
\* calls fn again.
backoffElapses(i) ==
  /\ i \in DOMAIN retry
  /\ retry[i].pc = "waiting"
  /\ retry' = [retry EXCEPT ![i].attempt = @ + 1, ![i].pc = "calling"]
  /\ UNCHANGED <<stocks, now, catalog>>
  /\ UNCHANGED <<dedupVars, browserVars, newsVars, auxVars>>

\* A mutation of upsertSettles in which a rejected store call ends the run.
upsertSettlesRethrows(c, ok) ==
  /\ c \in DOMAIN catalog
  /\ catalog[c].pc = "upserting"
  /\ LET run == catalog[c]
         stockData == run.stocks[run.i]
     IN IF ok
        THEN /\ stocks' = upsertStock(stocks, stockData, run.at)
             /\ catalog' = [catalog EXCEPT ![c] =
                  upsertLoop([run EXCEPT !.i = @ + 1,
                                         !.stats.upserted = @ + 1,
                                         !.writes = @ + 1])]
        ELSE /\ stocks' = stocks
             /\ catalog' = [catalog EXCEPT ![c].pc = "rejected"]
  /\ UNCHANGED <<now, retry>>
  /\ UNCHANGED <<dedupVars, browserVars, newsVars, auxVars>>

\* The store answers the upsert of record i of run c (lines 159-174).
upsertSettles(c, ok) ==
  /\ c \in DOMAIN catalog
  /\ catalog[c].pc = "upserting"
  /\ LET run == catalog[c]
         stockData == run.stocks[run.i]
     IN IF ok
        THEN /\ stocks' = upsertStock(stocks, stockData, run.at)
             /\ catalog' = [catalog EXCEPT ![c] =
                  upsertLoop([run EXCEPT !.i = @ + 1,
                                         !.stats.upserted = @ + 1,
                                         !.writes = @ + 1])]
        ELSE /\ stocks' = stocks
             /\ catalog' = [catalog EXCEPT ![c] =
                  upsertLoop([run EXCEPT
                    !.i = @ + 1,
                    !.failedAt = Append(@, run.i),
                    !.stats.failed = @ + 1,
                    !.stats.errors = Append(@, [symbol |-> stockData.symbol,
                                               error |-> "store"])])]
  /\ UNCHANGED <<now, retry>>
  /\ UNCHANGED <<dedupVars, browserVars, newsVars, auxVars>>

\* Time passes.
tick ==
  /\ now < MaxClock
  /\ now' = now + 1
  /\ UNCHANGED <<stocks, retry, catalog>>
  /\ UNCHANGED <<dedupVars, browserVars, newsVars, auxVars>>

SyncActive == \E c \in DOMAIN catalog : catalog[c].pc \in {"fetching", "upserting"}

NextRetry ==
  \/ \E m \in 0..MaxRetries, d \in Delays : retryWithBackoff(m, d)
  \/ (Len(retry) < MaxRetryCalls /\ syncAllUSCommonStocks)
  \/ \E i \in DOMAIN retry, response \in Responses : fnSettles(i, response)
  \/ \E i \in DOMAIN retry : backoffElapses(i)

SpecRetry == Init /\ [][NextRetry]_vars

NextCatalog ==
  \/ (~SyncActive /\ syncAllUSCommonStocks)
  \/ \E i \in DOMAIN retry, response \in Responses : fnSettles(i, response)
  \/ \E i \in DOMAIN retry : backoffElapses(i)
  \/ \E c \in DOMAIN catalog, ok \in BOOLEAN : upsertSettles(c, ok)
  \/ tick

SpecCatalog == Init /\ [][NextCatalog]_vars

(***************************************************************************)
(* isArticleRelevant (src/src/services/newsService.js, lines 172-206)      *)
(***************************************************************************)
isWordChar(c) == c \in WordChars

\* The regular expression assertion \b at position p of s, p in 1..Len(s)+1.
wordBoundary(s, p) ==
  ((p > 1) /\ isWordChar(s[p - 1])) # ((p <= Len(s)) /\ isWordChar(s[p]))

includes(s, w) ==
  \E p \in 1..(Len(s) - Len(w) + 1) : SubSeq(s, p, p + Len(w) - 1) = w

\* new RegExp(`\\b${escaped ticker}\\b`, 'i').test(s) for lower-case s and w.
tickerRegexTest(s, w) ==
  \E p \in 1..(Len(s) - Len(w) + 1) :
    /\ SubSeq(s, p, p + Len(w) - 1) = w
    /\ wordBoundary(s, p)
    /\ wordBoundary(s, p + Len(w))

CompanySuffixes ==
  { <<"i", "n", "c">>, <<"c", "o", "r", "p">>,
    <<"c", "o", "r", "p", "o", "r", "a", "t", "i", "o", "n">>,
    <<"l", "t", "d">>, <<"l", "i", "m", "i", "t", "e", "d">>, <<"l", "l", "c">>,
    <<"c", "o">>, <<"c", "o", "m", "p", "a", "n", "y">> }

\* The length of the longest prefix of s whose characters all satisfy, or all
\* fail, isWordChar, as its first character does.
RECURSIVE runLength(_)
runLength(s) ==
  IF Len(s) <= 1 THEN Len(s)
  ELSE IF isWordChar(s[1]) = isWordChar(s[2]) THEN 1 + runLength(Tail(s)) ELSE 1

\* companyName.replace(/\b(inc|corp|...|company)\b/gi, '') for lower-case s.
RECURSIVE removeSuffixes(_)
removeSuffixes(s) ==
  IF s = <<>> THEN <<>>
  ELSE LET n == runLength(s)
           run == SubSeq(s, 1, n)
           rest == SubSeq(s, n + 1, Len(s))
       IN (IF isWordChar(s[1]) /\ run \in CompanySuffixes THEN <<>> ELSE run)
            \o removeSuffixes(rest)

\* The set of the strings of s.split(/\s+/) for a trimmed s.
RECURSIVE splitWhiteSpace(_)
splitWhiteSpace(s) ==
  IF s = <<>> THEN {}
  ELSE IF isWhiteSpace(s[1]) THEN splitWhiteSpace(Tail(s))
  ELSE LET ends == {p \in 1..Len(s) : isWhiteSpace(s[p])}
           n == IF ends = {} THEN Len(s)
                ELSE (CHOOSE p \in ends : \A q \in ends : p <= q) - 1
       IN {SubSeq(s, 1, n)} \cup splitWhiteSpace(SubSeq(s, n + 1, Len(s)))

\* A mutation of isArticleRelevant that leaves the suffix words in the
\* company name.
isArticleRelevantKeepsSuffixes(article, stock) ==
  LET headline == toLowerCase(article.headline)
      summary == toLowerCase(article.summary)
      ticker == toLowerCase(stock.symbol)
      companyName == toLowerCase(stock.description)
      companyNameWords == {w \in splitWhiteSpace(trim(companyName)) : Len(w) > 2}
  IN \/ /\ ticker # <<>>
        /\ tickerRegexTest(headline, ticker) \/ tickerRegexTest(summary, ticker)
     \/ \E w \in companyNameWords : includes(headline, w) \/ includes(summary, w)

isArticleRelevant(article, stock) ==
  LET headline == toLowerCase(article.headline)
      summary == toLowerCase(article.summary)
      ticker == toLowerCase(stock.symbol)
      companyName == toLowerCase(stock.description)
      companyNameWords ==
        {w \in splitWhiteSpace(trim(removeSuffixes(companyName))) : Len(w) > 2}
  IN \/ /\ ticker # <<>>
        /\ tickerRegexTest(headline, ticker) \/ tickerRegexTest(summary, ticker)
     \/ \E w \in companyNameWords : includes(headline, w) \/ includes(summary, w)

\* A mutation of relevantArticles that keeps every article.
relevantArticlesUnfiltered(articles, stock) == articles

\* newsData.filter(article => isArticleRelevant(article, stock)) (lines 225-227).
RECURSIVE relevantArticles(_, _)
relevantArticles(articles, stock) ==
  IF articles = <<>> THEN <<>>
  ELSE IF isArticleRelevant(Head(articles), stock)
       THEN <<Head(articles)>> \o relevantArticles(Tail(articles), stock)
       ELSE relevantArticles(Tail(articles), stock)

\* A call of isArticleRelevant and what it returns.
isArticleRelevantCall(article, stock) ==
  /\ relevance' = Append(relevance,
       [article |-> article, stock |-> stock,
        result |-> isArticleRelevant(article, stock)])
  /\ UNCHANGED <<dedupVars, browserVars, syncVars, newsVars, saved, logoVars>>

NextRelevance ==
  \E headline \in Headlines, summary \in Summaries, stock \in Instruments :
    /\ Len(relevance) < MaxRelevanceCalls
    /\ isArticleRelevantCall([headline |-> headline, summary |-> summary], stock)

SpecRelevance == Init /\ [][NextRelevance]_vars

(***************************************************************************)
(* downloadAndSaveImage: the name of the file it writes, and checkStockLogo *)
(* (src/src/services/stockService.js, lines 28-52, 60-170)                 *)
(***************************************************************************)
startsWith(s, w) == Len(s) >= Len(w) /\ SubSeq(s, 1, Len(w)) = w

endsWith(s, w) == Len(s) >= Len(w) /\ SubSeq(s, Len(s) - Len(w) + 1, Len(s)) = w

\* LOGO_EXTENSIONS[k] as a JavaScript string.
ExtensionChars(k) ==
  CASE LOGO_EXTENSIONS[k] = ".png" -> <<".", "p", "n", "g">>
    [] LOGO_EXTENSIONS[k] = ".jpg" -> <<".", "j", "p", "g">>
    [] LOGO_EXTENSIONS[k] = ".jpeg" -> <<".", "j", "p", "e", "g">>
    [] LOGO_EXTENSIONS[k] = ".svg" -> <<".", "s", "v", "g">>
    [] LOGO_EXTENSIONS[k] = ".gif" -> <<".", "g", "i", "f">>
    [] LOGO_EXTENSIONS[k] = ".webp" -> <<".", "w", "e", "b", "p">>

\* The extension of a network download (lines 129-159): from the content
\* type when there is one, from the end of the path when there is none, and
\* .png when nothing is recognised.
networkExtension(contentType, pathname) ==
  IF contentType # <<>>
  THEN IF includes(contentType, <<"j", "p", "e", "g">>) \/ includes(contentType, <<"j", "p", "g">>)
       THEN <<".", "j", "p", "g">>
       ELSE IF includes(contentType, <<"p", "n", "g">>) THEN <<".", "p", "n", "g">>
       ELSE IF includes(contentType, <<"s", "v", "g">>) THEN <<".", "s", "v", "g">>
       ELSE IF includes(contentType, <<"g", "i", "f">>) THEN <<".", "g", "i", "f">>
       ELSE IF includes(contentType, <<"w", "e", "b", "p">>) THEN <<".", "w", "e", "b", "p">>
       ELSE <<".", "p", "n", "g">>
  ELSE LET urlPath == toLowerCase(pathname)
       IN IF endsWith(urlPath, <<".", "j", "p", "g">>) \/ endsWith(urlPath, <<".", "j", "p", "e", "g">>)
          THEN <<".", "j", "p", "g">>
          ELSE IF endsWith(urlPath, <<".", "p", "n", "g">>) THEN <<".", "p", "n", "g">>
          ELSE IF endsWith(urlPath, <<".", "s", "v", "g">>) THEN <<".", "s", "v", "g">>
          ELSE IF endsWith(urlPath, <<".", "g", "i", "f">>) THEN <<".", "g", "i", "f">>
          ELSE IF endsWith(urlPath, <<".", "w", "e", "b", "p">>) THEN <<".", "w", "e", "b", "p">>
          ELSE <<".", "p", "n", "g">>

\* The length of the run of word characters of s that begins at position p.
RECURSIVE wordRun(_, _)
wordRun(s, p) ==
  IF p <= Len(s) /\ isWordChar(s[p]) THEN 1 + wordRun(s, p + 1) ELSE 0

\* imageUrl.match(/^data:image\/(\w+);base64,(.+)$/) (line 72) for a source
\* without line breaks: whether it matches, and the first group.
dataUrlMatch(imageUrl) ==
  LET prefix == <<"d", "a", "t", "a", ":", "i", "m", "a", "g", "e", "/">>
      n == wordRun(imageUrl, Len(prefix) + 1)
      rest == SubSeq(imageUrl, Len(prefix) + n + 1, Len(imageUrl))
      marker == <<";", "b", "a", "s", "e", "6", "4", ",">>
  IN [matches |-> /\ startsWith(imageUrl, prefix)
                  /\ n >= 1
                  /\ startsWith(rest, marker)
                  /\ Len(rest) > Len(marker),
      imageType |-> SubSeq(imageUrl, Len(prefix) + 1, Len(prefix) + n)]

\* The extension of a data URL of type imageType (lines 80-94).
dataUrlExtension(imageType) ==
  IF imageType = <<"j", "p", "e", "g">> \/ imageType = <<"j", "p", "g">> THEN <<".", "j", "p", "g">>
  ELSE IF imageType = <<"p", "n", "g">> THEN <<".", "p", "n", "g">>
  ELSE IF imageType = <<"s", "v", "g", "+", "x", "m", "l">> THEN <<".", "s", "v", "g">>
  ELSE IF imageType = <<"g", "i", "f">> THEN <<".", "g", "i", "f">>
  ELSE IF imageType = <<"w", "e", "b", "p">> THEN <<".", "w", "e", "b", "p">>
  ELSE <<".">> \o imageType

\* checkStockLogo(query) over a directory that holds the files names (lines
\* 28-52): the index in LOGO_EXTENSIONS of the first file found, 0 for null.
checkStockLogo(names, query) ==
  LET found == {k \in DOMAIN LOGO_EXTENSIONS :
                  normalizedQuery(query) \o ExtensionChars(k) \in names}
  IN IF found = {} THEN 0 ELSE CHOOSE k \in found : \A j \in found : k <= j

\* downloadAndSaveImage(imageUrl, ticker) for a data URL (lines 69-108): the
\* file written, and whether a path is returned (null when the pattern does
\* not match or writeFile fails).
saveDataUrl(imageUrl, ticker, ok) ==
  /\ startsWith(imageUrl, <<"d", "a", "t", "a", ":", "i", "m", "a", "g", "e", "/">>)
  /\ LET m == dataUrlMatch(imageUrl)
         filename == ticker \o dataUrlExtension(m.imageType)
     IN saved' = Append(saved,
          [kind |-> "data", imageUrl |-> imageUrl, contentType |-> <<>>,
           pathname |-> <<>>, ticker |-> ticker,
           returned |-> m.matches /\ ok,
           filename |-> IF m.matches /\ ok THEN filename ELSE <<>>])
  /\ UNCHANGED <<dedupVars, browserVars, syncVars, newsVars, relevance, logoVars>>

\* downloadAndSaveImage(imageUrl, ticker) for a network URL whose server
\* answers 200 and whose body is written to the end (lines 129-170).
saveNetwork(contentType, pathname, ticker) ==
  /\ saved' = Append(saved,
       [kind |-> "network", imageUrl |-> <<>>, contentType |-> contentType,
        pathname |-> pathname, ticker |-> ticker, returned |-> TRUE,
        filename |-> ticker \o networkExtension(contentType, pathname)])
  /\ UNCHANGED <<dedupVars, browserVars, syncVars, newsVars, relevance, logoVars>>

NextNaming ==
  \/ \E imageUrl \in DataUrls, ok \in BOOLEAN :
       Len(saved) < MaxDownloads /\ saveDataUrl(imageUrl, AAPL, ok)
  \/ \E contentType \in ContentTypes, pathname \in UrlPaths :
       Len(saved) < MaxDownloads /\ saveNetwork(contentType, pathname, AAPL)

SpecNaming == Init /\ [][NextNaming]_vars

(***************************************************************************)
(* addOrRemoveStock (src/src/services/watchlistService.js, lines 61-126)   *)
(***************************************************************************)
ToggleRec(userId, stockId) ==
  [userId |-> userId, stockId |-> stockId, pc |-> "findStock", action |-> "none",
   error |-> "none"]

\* addOrRemoveStock up to its first await (lines 61-65).
addOrRemoveStock(userId, stockId) ==
  /\ Len(toggle) < MaxToggles
  /\ toggle' = Append(toggle, ToggleRec(userId, stockId))
  /\ UNCHANGED <<userStocks, newsRun, news>>
  /\ UNCHANGED <<dedupVars, browserVars, syncVars, auxVars>>

\* prisma.stock.findUnique settles (lines 63-79): 'Stock not found', or the
\* lookup of the watch relationship is issued.
toggleStockFound(t) ==
  /\ t \in DOMAIN toggle
  /\ toggle[t].pc = "findStock"
  /\ toggle' = IF \E row \in stocks : row.id = toggle[t].stockId
               THEN [toggle EXCEPT ![t].pc = "findItem"]
               ELSE [toggle EXCEPT ![t].pc = "failed", ![t].error = "Stock not found"]
  /\ UNCHANGED <<userStocks, newsRun, news>>
  /\ UNCHANGED <<dedupVars, browserVars, syncVars, auxVars>>

\* prisma.userStock.findUnique settles (lines 72-111): the delete or the
\* create is issued.
toggleItemFound(t) ==
  /\ t \in DOMAIN toggle
  /\ toggle[t].pc = "findItem"
  /\ toggle' = IF [userId |-> toggle[t].userId, stockId |-> toggle[t].stockId] \in userStocks
               THEN [toggle EXCEPT ![t].pc = "deleting"]
               ELSE [toggle EXCEPT ![t].pc = "creating"]
  /\ UNCHANGED <<userStocks, newsRun, news>>
  /\ UNCHANGED <<dedupVars, browserVars, syncVars, auxVars>>

\* prisma.userStock.delete or create settles (lines 83-125).  Deleting a
\* relationship that is gone and creating one that exists are rejected by the
\* store.
toggleWriteSettles(t) ==
  /\ t \in DOMAIN toggle
  /\ toggle[t].pc \in {"deleting", "creating"}
  /\ LET item == [userId |-> toggle[t].userId, stockId |-> toggle[t].stockId]
     IN IF toggle[t].pc = "deleting"
        THEN IF item \in userStocks
             THEN /\ userStocks' = userStocks \ {item}
                  /\ toggle' = [toggle EXCEPT ![t].pc = "done", ![t].action = "removed"]
             ELSE /\ userStocks' = userStocks
                  /\ toggle' = [toggle EXCEPT ![t].pc = "failed", ![t].error = "store"]
        ELSE IF item \notin userStocks
             THEN /\ userStocks' = userStocks \cup {item}
                  /\ toggle' = [toggle EXCEPT ![t].pc = "done", ![t].action = "added"]
             ELSE /\ userStocks' = userStocks
                  /\ toggle' = [toggle EXCEPT ![t].pc = "failed", ![t].error = "store"]
  /\ UNCHANGED <<newsRun, news>>
  /\ UNCHANGED <<dedupVars, browserVars, syncVars, auxVars>>

ToggleActive == \E t \in DOMAIN toggle : toggle[t].pc \notin {"done", "failed"}

\* Calls of addOrRemoveStock that overlap, as two requests of one user do.
NextToggle ==
  \/ \E u \in Users, s \in StockIds : addOrRemoveStock(u, s)
  \/ \E t \in DOMAIN toggle : toggleStockFound(t)
  \/ \E t \in DOMAIN toggle : toggleItemFound(t)
  \/ \E t \in DOMAIN toggle : toggleWriteSettles(t)

SpecToggle == Init /\ [][NextToggle]_vars

(***************************************************************************)
(* syncNewsForAllWatchlistStocks and fetchAndSaveNewsForStock              *)
(* (src/src/services/newsService.js)                                       *)
(***************************************************************************)
\* JavaScript numbers as far as the run needs them: a natural or NaN.
Num(n) == [nan |-> FALSE, n |-> n]

NaN == [nan |-> TRUE, n |-> 0]

plus(x, y) == IF x.nan \/ y.nan THEN NaN ELSE Num(x.n + y.n)

\* What fetchAndSaveNewsForStock settles with: the number 0 (lines 221, 230,
\* 290) or the object {new, updated, total} (line 287).
Zero == [threw |-> FALSE, isObject |-> FALSE, new |-> 0, updated |-> 0, total |-> 0]

Counts(new, updated) ==
  [threw |-> FALSE, isObject |-> TRUE, new |-> new, updated |-> updated,
   total |-> new + updated]

\* result.total (line 350): the property total of the number 0 is undefined.
resultTotal(result) == IF result.isObject THEN Num(result.total) ELSE NaN

NoSummary ==
  [fields |-> {}, success |-> FALSE, totalStocks |-> 0, totalArticles |-> Num(0),
   successCount |-> 0, errorCount |-> 0]

NewsRunRec ==
  [pc |-> "userStocks", ids |-> {}, stocks |-> <<>>, i |-> 0, task |-> <<>>,
   fetchResult |-> <<>>, totalArticles |-> Num(0), successCount |-> 0,
   errorCount |-> 0, delays |-> <<>>, requests |-> 0, relevant |-> <<>>, a |-> 0,
   newCount |-> 0, updatedCount |-> 0,
   last |-> [existed |-> FALSE, outcome |-> "none"],
   received |-> <<>>, inserted |-> 0, updated |-> 0,
   storeFailed |-> FALSE, summary |-> NoSummary]

\* The rows of table in the order of their ids, with the selected fields.
RECURSIVE selectStocks(_)
selectStocks(table) ==
  IF table = {} THEN <<>>
  ELSE LET row == CHOOSE r \in table : \A q \in table : r.id <= q.id
       IN <<[id |-> row.id, symbol |-> row.symbol, description |-> row.description]>>
            \o selectStocks(table \ {row})

\* The catch of the whole run (lines 389-395).
failureSummary(run) ==
  [run EXCEPT !.pc = "done", !.storeFailed = TRUE,
              !.summary = [NoSummary EXCEPT !.fields = {"success", "error"}]]

\* The return for an empty watch table (lines 310-317).
emptySummary(run) ==
  [run EXCEPT !.pc = "done",
              !.summary = [NoSummary EXCEPT
                 !.fields = {"totalStocks", "totalArticles", "success"},
                 !.success = TRUE]]

\* The return after the loop (lines 380-388).
fullSummary(run) ==
  [run EXCEPT !.pc = "done",
              !.summary =
                [fields |-> {"totalStocks", "totalArticles", "successCount",
                             "errorCount", "success"},
                 success |-> TRUE, totalStocks |-> Len(run.stocks),
                 totalArticles |-> run.totalArticles,
                 successCount |-> run.successCount, errorCount |-> run.errorCount]]

\* A mutation of startFetch that does not wait for one instrument before it
\* requests the next ones.
startFetchAllAtOnce(run, k) ==
  [run EXCEPT !.i = k, !.pc = "fetching",
              !.task = [j \in DOMAIN run.task |-> IF j >= k THEN "fetching" ELSE run.task[j]],
              !.requests = @ + 1]

\* The loop body up to its await (lines 346-349, 214-218): the company-news
\* request for instrument k is issued.
startFetch(run, k) ==
  [run EXCEPT !.i = k, !.pc = "fetching", !.task[k] = "fetching",
              !.requests = @ + 1, !.received = <<>>, !.relevant = <<>>, !.a = 0,
              !.newCount = 0, !.updatedCount = 0]

\* A mutation of afterInstrument that skips the delay after an instrument
\* whose fetch failed.
afterInstrumentNoDelayOnFailure(run, result) ==
  LET k == run.i
      r1 == [run EXCEPT !.task[k] = "done",
                        !.totalArticles = plus(@, resultTotal(result)),
                        !.successCount = @ + 1]
  IN IF k < Len(run.stocks)
     THEN IF run.fetchResult[k] = "failed"
          THEN startFetch(r1, k + 1)
          ELSE [r1 EXCEPT !.pc = "delay",
                          !.delays = Append(@, RATE_LIMIT_DELAY_MS)]
     ELSE fullSummary(r1)

\* The loop body once fetchAndSaveNewsForStock has settled (lines 349-378):
\* the counters, then the delay unless this was the last instrument, then
\* the summary.
afterInstrument(run, result) ==
  LET k == run.i
      r1 == IF result.threw
            THEN [run EXCEPT !.task[k] = "done", !.errorCount = @ + 1]
            ELSE [run EXCEPT !.task[k] = "done",
                             !.totalArticles = plus(@, resultTotal(result)),
                             !.successCount = @ + 1]
  IN IF k < Len(run.stocks)
     THEN [r1 EXCEPT !.pc = "delay", !.delays = Append(@, RATE_LIMIT_DELAY_MS)]
     ELSE fullSummary(r1)

\* The article loop after article a (lines 237-287): the lookup of the next
\* article is issued, or fetchAndSaveNewsForStock returns its counts.
nextArticle(run) ==
  IF run.a < Len(run.relevant)
  THEN [run EXCEPT !.a = @ + 1, !.pc = "findUnique", !.task[run.i] = "saving"]
  ELSE afterInstrument(run, Counts(run.newCount, run.updatedCount))

\* syncNewsForAllWatchlistStocks up to its first await (lines 299-308).
syncNewsForAllWatchlistStocks ==
  /\ Len(newsRun) < MaxNewsRuns
  /\ newsRun' = Append(newsRun, NewsRunRec)
  /\ UNCHANGED <<userStocks, toggle, news>>
  /\ UNCHANGED <<dedupVars, browserVars, syncVars, auxVars>>

\* A mutation of userStockFindManySettles whose store failure is not caught.
userStockFindManyRejects(r, ok) ==
  /\ r \in DOMAIN newsRun
  /\ newsRun[r].pc = "userStocks"
  /\ newsRun' = [newsRun EXCEPT ![r] =
       IF ~ok THEN [@ EXCEPT !.pc = "rejected", !.storeFailed = TRUE]
       ELSE IF userStocks = {} THEN emptySummary(@)
       ELSE [@ EXCEPT !.pc = "stocks", !.ids = {us.stockId : us \in userStocks}]]
  /\ UNCHANGED <<userStocks, toggle, news>>
  /\ UNCHANGED <<dedupVars, browserVars, syncVars, auxVars>>

\* A mutation of userStockFindManySettles that keeps the tracked set of the
\* run before.
userStockFindManyCached(r, ok) ==
  /\ r \in DOMAIN newsRun
  /\ newsRun[r].pc = "userStocks"
  /\ newsRun' = [newsRun EXCEPT ![r] =
       LET ids == IF r > 1 THEN newsRun[r - 1].ids ELSE {us.stockId : us \in userStocks}
       IN IF ~ok THEN failureSummary(@)
          ELSE IF ids = {} THEN emptySummary(@)
          ELSE [@ EXCEPT !.pc = "stocks", !.ids = ids]]
  /\ UNCHANGED <<userStocks, toggle, news>>
  /\ UNCHANGED <<dedupVars, browserVars, syncVars, auxVars>>

\* prisma.userStock.findMany settles (lines 304-334).
userStockFindManySettles(r, ok) ==
  /\ r \in DOMAIN newsRun
  /\ newsRun[r].pc = "userStocks"
  /\ newsRun' = [newsRun EXCEPT ![r] =
       IF ~ok THEN failureSummary(@)
       ELSE IF userStocks = {} THEN emptySummary(@)
       ELSE [@ EXCEPT !.pc = "stocks", !.ids = {us.stockId : us \in userStocks}]]
  /\ UNCHANGED <<userStocks, toggle, news>>
  /\ UNCHANGED <<dedupVars, browserVars, syncVars, auxVars>>

\* prisma.stock.findMany settles (lines 323-349): the loop starts.
stockFindManySettles(r, ok) ==
  /\ r \in DOMAIN newsRun
  /\ newsRun[r].pc = "stocks"
  /\ newsRun' = [newsRun EXCEPT ![r] =
       IF ~ok THEN failureSummary(@)
       ELSE LET uniqueStocks == selectStocks({row \in stocks : row.id \in @.ids})
                r1 == [@ EXCEPT !.stocks = uniqueStocks,
                                !.task = [k \in DOMAIN uniqueStocks |-> "pending"]]
            IN IF uniqueStocks = <<>> THEN fullSummary(r1) ELSE startFetch(r1, 1)]
  /\ UNCHANGED <<userStocks, toggle, news>>
  /\ UNCHANGED <<dedupVars, browserVars, syncVars, auxVars>>

\* The upstream answers the company-news request (lines 218-240, 288-291).
newsFetchSettles(r, response) ==
  /\ r \in DOMAIN newsRun
  /\ newsRun[r].pc = "fetching"
  /\ newsRun' = [newsRun EXCEPT ![r] =
       LET stock == @.stocks[@.i]
           fetched == fetchCompanyNews(response)
           r1 == [@ EXCEPT !.fetchResult = Append(@, IF fetched THEN "ok" ELSE "failed"),
                           !.received = response.articles]
           relevant == relevantArticles(response.articles, stock)
       IN IF ~fetched \/ response.kind # "array" \/ relevant = <<>>
          THEN afterInstrument(r1, Zero)
          ELSE nextArticle([r1 EXCEPT !.relevant = relevant, !.a = 0])]
  /\ UNCHANGED <<userStocks, toggle, news>>
  /\ UNCHANGED <<dedupVars, browserVars, syncVars, auxVars>>

\* A mutation of findUniqueSettles whose rejected lookup ends the instrument.
findUniqueSettlesAborts(r, ok) ==
  /\ r \in DOMAIN newsRun
  /\ newsRun[r].pc = "findUnique"
  /\ newsRun' = [newsRun EXCEPT ![r] =
       LET article == @.relevant[@.a]
           existing == \E row \in news : row.finnhubId = article.id
       IN IF ~ok
          THEN afterInstrument([@ EXCEPT !.last = [existed |-> existing, outcome |-> "store"]],
                               Zero)
          ELSE [@ EXCEPT !.pc = IF existing THEN "updating" ELSE "creating",
                         !.last = [existed |-> existing, outcome |-> "none"]]]
  /\ UNCHANGED <<userStocks, toggle, news>>
  /\ UNCHANGED <<dedupVars, browserVars, syncVars, auxVars>>

\* prisma.news.findUnique settles (lines 240-266): the update or the create
\* is issued; a rejected lookup is caught and the article skipped.
findUniqueSettles(r, ok) ==
  /\ r \in DOMAIN newsRun
  /\ newsRun[r].pc = "findUnique"
  /\ newsRun' = [newsRun EXCEPT ![r] =
       LET article == @.relevant[@.a]
           existing == \E row \in news : row.finnhubId = article.id
       IN IF ~ok
          THEN nextArticle([@ EXCEPT !.last = [existed |-> existing, outcome |-> "store"]])
          ELSE [@ EXCEPT !.pc = IF existing THEN "updating" ELSE "creating",
                         !.last = [existed |-> existing, outcome |-> "none"]]]
  /\ UNCHANGED <<userStocks, toggle, news>>
  /\ UNCHANGED <<dedupVars, browserVars, syncVars, auxVars>>

\* A mutation of newsWriteSettles over a news table without the unique
\* indexes on finnhubId and url.
newsWriteSettlesNoUniqueIndex(r, ok) ==
  /\ r \in DOMAIN newsRun
  /\ newsRun[r].pc \in {"updating", "creating"}
  /\ LET run == newsRun[r]
         article == run.relevant[run.a]
         stock == run.stocks[run.i]
     IN IF run.pc = "updating"
        THEN /\ news' = { IF row.finnhubId = article.id
                          THEN [row EXCEPT !.headline = article.headline,
                                           !.summary = article.summary,
                                           !.url = article.url]
                          ELSE row : row \in news }
             /\ newsRun' = [newsRun EXCEPT ![r] =
                  nextArticle([run EXCEPT !.updatedCount = @ + 1, !.updated = @ + 1,
                                          !.last.outcome = "updated"])]
        ELSE /\ news' = news \cup
                  { [stockId |-> stock.id, finnhubId |-> article.id,
                     headline |-> article.headline, summary |-> article.summary,
                     url |-> article.url] }
             /\ newsRun' = [newsRun EXCEPT ![r] =
                  nextArticle([run EXCEPT !.newCount = @ + 1, !.inserted = @ + 1,
                                          !.last.outcome = "new"])]
  /\ UNCHANGED <<userStocks, toggle>>
  /\ UNCHANGED <<dedupVars, browserVars, syncVars, auxVars>>

\* A mutation of newsWriteSettles whose update also writes the stockId of the
\* instrument being processed.
newsWriteSettlesReassigns(r, ok) ==
  /\ r \in DOMAIN newsRun
  /\ newsRun[r].pc \in {"updating", "creating"}
  /\ LET run == newsRun[r]
         article == run.relevant[run.a]
         stock == run.stocks[run.i]
         urlTaken == \E row \in news : row.url = article.url /\ row.finnhubId # article.id
         idStored == \E row \in news : row.finnhubId = article.id
         skip(outcome) ==
           /\ news' = news
           /\ newsRun' = [newsRun EXCEPT ![r] =
                nextArticle([run EXCEPT !.last.outcome = outcome])]
     IN IF ~ok THEN skip("store")
        ELSE IF run.pc = "updating"
        THEN IF ~idStored \/ urlTaken THEN skip("conflict")
             ELSE /\ news' = { IF row.finnhubId = article.id
                               THEN [row EXCEPT !.stockId = stock.id,
                                                !.headline = article.headline,
                                                !.summary = article.summary,
                                                !.url = article.url]
                               ELSE row : row \in news }
                  /\ newsRun' = [newsRun EXCEPT ![r] =
                       nextArticle([run EXCEPT !.updatedCount = @ + 1,
                                               !.updated = @ + 1,
                                               !.last.outcome = "updated"])]
        ELSE IF idStored \/ urlTaken THEN skip("conflict")
             ELSE /\ news' = news \cup
                       { [stockId |-> stock.id, finnhubId |-> article.id,
                          headline |-> article.headline, summary |-> article.summary,
                          url |-> article.url] }
                  /\ newsRun' = [newsRun EXCEPT ![r] =
                       nextArticle([run EXCEPT !.newCount = @ + 1,
                                               !.inserted = @ + 1,
                                               !.last.outcome = "new"])]
  /\ UNCHANGED <<userStocks, toggle>>
  /\ UNCHANGED <<dedupVars, browserVars, syncVars, auxVars>>

\* prisma.news.update or prisma.news.create settles (lines 251-284).  The
\* store rejects an update of a row that is gone and a write that would give
\* two rows one finnhubId or one url; the rejection is caught and the article
\* skipped.
newsWriteSettles(r, ok) ==
  /\ r \in DOMAIN newsRun
  /\ newsRun[r].pc \in {"updating", "creating"}
  /\ LET run == newsRun[r]
         article == run.relevant[run.a]
         stock == run.stocks[run.i]
         urlTaken == \E row \in news : row.url = article.url /\ row.finnhubId # article.id
         idStored == \E row \in news : row.finnhubId = article.id
         skip(outcome) ==
           /\ news' = news
           /\ newsRun' = [newsRun EXCEPT ![r] =
                nextArticle([run EXCEPT !.last.outcome = outcome])]
     IN IF ~ok THEN skip("store")
        ELSE IF run.pc = "updating"
        THEN IF ~idStored \/ urlTaken THEN skip("conflict")
             ELSE /\ news' = { IF row.finnhubId = article.id
                               THEN [row EXCEPT !.headline = article.headline,
                                                !.summary = article.summary,
                                                !.url = article.url]
                               ELSE row : row \in news }
                  /\ newsRun' = [newsRun EXCEPT ![r] =
                       nextArticle([run EXCEPT !.updatedCount = @ + 1,
                                               !.updated = @ + 1,
                                               !.last.outcome = "updated"])]
        ELSE IF idStored \/ urlTaken THEN skip("conflict")
             ELSE /\ news' = news \cup
                       { [stockId |-> stock.id, finnhubId |-> article.id,
                          headline |-> article.headline, summary |-> article.summary,
                          url |-> article.url] }
                  /\ newsRun' = [newsRun EXCEPT ![r] =
                       nextArticle([run EXCEPT !.newCount = @ + 1,
                                               !.inserted = @ + 1,
                                               !.last.outcome = "new"])]
  /\ UNCHANGED <<userStocks, toggle>>
  /\ UNCHANGED <<dedupVars, browserVars, syncVars, auxVars>>

\* The rate-limit timer fires (lines 366-368): the loop goes to the next
\* instrument.
delayElapses(r) ==
  /\ r \in DOMAIN newsRun
  /\ newsRun[r].pc = "delay"
  /\ newsRun' = [newsRun EXCEPT ![r] = startFetch(@, @.i + 1)]
  /\ UNCHANGED <<userStocks, toggle, news>>
  /\ UNCHANGED <<dedupVars, browserVars, syncVars, auxVars>>

NewsActive == \E r \in DOMAIN newsRun : newsRun[r].pc # "done"

NextNews ==
  \/ \E u \in Users, s \in StockIds :
       ~NewsActive /\ ~ToggleActive /\ addOrRemoveStock(u, s)
  \/ \E t \in DOMAIN toggle : toggleStockFound(t)
  \/ \E t \in DOMAIN toggle : toggleItemFound(t)
  \/ \E t \in DOMAIN toggle : toggleWriteSettles(t)
  \/ (~NewsActive /\ ~ToggleActive /\ syncNewsForAllWatchlistStocks)
  \/ \E r \in DOMAIN newsRun, ok \in BOOLEAN : userStockFindManySettles(r, ok)
  \/ \E r \in DOMAIN newsRun, ok \in BOOLEAN : stockFindManySettles(r, ok)
  \/ \E r \in DOMAIN newsRun, response \in NewsResponses : newsFetchSettles(r, response)
  \/ \E r \in DOMAIN newsRun, ok \in BOOLEAN : findUniqueSettles(r, ok)
  \/ \E r \in DOMAIN newsRun, ok \in BOOLEAN : newsWriteSettles(r, ok)
  \/ \E r \in DOMAIN newsRun : delayElapses(r)

SpecNews == Init /\ [][NextNews]_vars

\* The scheduled job (src/src/services/cronJobs.js, lines 37-41): every 20
\* minutes the callback calls syncNewsForAllWatchlistStocks, whether or not
\* an earlier run is still going on.
newsSyncCron ==
  /\ Len(newsRun) < MaxCronRuns
  /\ newsRun' = Append(newsRun, NewsRunRec)
  /\ UNCHANGED <<userStocks, toggle, news>>
  /\ UNCHANGED <<dedupVars, browserVars, syncVars, auxVars>>

\* Two scheduled runs that overlap, over the watch table one user has filled
\* beforehand.
NextCron ==
  \/ \E s \in StockIds :
       newsRun = <<>> /\ ~ToggleActive /\ addOrRemoveStock("u1", s)
  \/ \E t \in DOMAIN toggle : toggleStockFound(t)
  \/ \E t \in DOMAIN toggle : toggleItemFound(t)
  \/ \E t \in DOMAIN toggle : toggleWriteSettles(t)
  \/ newsSyncCron
  \/ \E r \in DOMAIN newsRun, ok \in BOOLEAN : userStockFindManySettles(r, ok)
  \/ \E r \in DOMAIN newsRun, ok \in BOOLEAN : stockFindManySettles(r, ok)
  \/ \E r \in DOMAIN newsRun, response \in CronResponses : newsFetchSettles(r, response)
  \/ \E r \in DOMAIN newsRun, ok \in BOOLEAN : findUniqueSettles(r, ok)
  \/ \E r \in DOMAIN newsRun, ok \in BOOLEAN : newsWriteSettles(r, ok)
  \/ \E r \in DOMAIN newsRun : delayElapses(r)

SpecCron == Init /\ [][NextCron]_vars

\* Scheduled runs that follow one another, with the watch table changed
\* before, between and during them.
NextTracked ==
  \/ \E u \in Users, s \in StockIds : ~ToggleActive /\ addOrRemoveStock(u, s)
  \/ \E t \in DOMAIN toggle : toggleStockFound(t)
  \/ \E t \in DOMAIN toggle : toggleItemFound(t)
  \/ \E t \in DOMAIN toggle : toggleWriteSettles(t)
  \/ (~NewsActive /\ newsSyncCron)
  \/ \E r \in DOMAIN newsRun, ok \in BOOLEAN : userStockFindManySettles(r, ok)
  \/ \E r \in DOMAIN newsRun, ok \in BOOLEAN : stockFindManySettles(r, ok)
  \/ \E r \in DOMAIN newsRun, response \in CronResponses : newsFetchSettles(r, response)
  \/ \E r \in DOMAIN newsRun, ok \in BOOLEAN : findUniqueSettles(r, ok)
  \/ \E r \in DOMAIN newsRun, ok \in BOOLEAN : newsWriteSettles(r, ok)
  \/ \E r \in DOMAIN newsRun : delayElapses(r)

SpecTracked == Init /\ [][NextTracked]_vars

(***************************************************************************)
(* Logo acquisition: checkStockLogo, downloadAndSaveImage, scrapeStockLogo *)
(* and processStockLogo (src/src/services/stockService.js), and the        *)
(* backfill loop of syncStocksWithLogos                                    *)
(* (src/src/services/stockSyncService.js).  Both files hold the same       *)
(* checkStockLogo, downloadAndSaveImage and scrapeStockLogo.               *)
(***************************************************************************)
\* What the actions of the acquisition leave alone.
LogoFrame ==
  /\ UNCHANGED <<promise, call, running, invoked>>
  /\ UNCHANGED browserVars
  /\ UNCHANGED <<now, retry, catalog>>
  /\ UNCHANGED <<newsVars, relevance, saved>>

\* An acquisition: a processStockLogo call ("lazy") or one turn of the
\* backfill loop ("eager").  seen is the directory as it was at the start.
AcquireRec(path, row, logo) ==
  [path |-> path, stockId |-> row.id, symbol |-> row.symbol, logo |-> logo,
   pc |-> IF logo # "" THEN "done" ELSE "access", ext |-> 1,
   result |-> logo, scrape |-> 0, started |-> FALSE, found |-> FALSE,
   failed |-> FALSE, seen |-> files]

\* A scrapeStockLogo call up to its first await (lines 190-210).
ScrapeRec(query, key, by) ==
  [symbol |-> normalizedQuery(query), key |-> key, by |-> by, pc |-> "launch",
   browser |-> FALSE, page |-> FALSE, src |-> "none", file |-> <<>>, gen |-> 0,
   redirects |-> 0, failure |-> "none", ret |-> "", result |-> "", wrote |-> FALSE]

\* The return or the catch of scrapeStockLogo, then the finally block up to
\* its first await (lines 296-299, 328-360): the page is closed if there is
\* one, then the browser if there is one, then the call resolves with ret.
enterFinally(s, ret, failure) ==
  LET s1 == [s EXCEPT !.ret = ret, !.failure = failure]
  IN IF s.page THEN [s1 EXCEPT !.pc = "closePage"]
     ELSE IF s.browser THEN [s1 EXCEPT !.pc = "closeBrowser"]
     ELSE [s1 EXCEPT !.pc = "resolved", !.result = ret]

\* processStockLogo after the scrape (lines 499-514) and the backfill loop
\* after it (lines 587-600): a path is written to the store, null is not.
afterScrape(a, logoPath) ==
  IF logoPath # ""
  THEN [a EXCEPT !.result = logoPath, !.pc = "updating"]
  ELSE [a EXCEPT !.result = "", !.pc = "done", !.failed = (a.path = "eager")]

\* A step of scrape i that takes it to s1.  When the call resolves, the
\* coalescer deletes the entry of its key and every acquisition that awaits
\* the call goes on, all before the next callback of the event loop.
ScrapeStep(i, s1, files1, unlinks1) ==
  /\ logoScrape' = [logoScrape EXCEPT ![i] = s1]
  /\ files' = files1
  /\ unlinks' = unlinks1
  /\ pendingRequests' =
       IF s1.pc = "resolved" /\ s1.key # ""
       THEN MapDelete(pendingRequests, s1.key) ELSE pendingRequests
  /\ acquire' =
       IF s1.pc = "resolved"
       THEN [a \in DOMAIN acquire |->
               IF acquire[a].pc = "scraping" /\ acquire[a].scrape = i
               THEN afterScrape(acquire[a], s1.result) ELSE acquire[a]]
       ELSE acquire
  /\ UNCHANGED stocks
  /\ LogoFrame

At(i, pc) == i \in DOMAIN logoScrape /\ logoScrape[i].pc = pc

\* puppeteer.launch settles (lines 199-213).
logoLaunchSettles(i, ok) ==
  /\ At(i, "launch")
  /\ ScrapeStep(i, IF ok THEN [logoScrape[i] EXCEPT !.browser = TRUE, !.pc = "newPage"]
                   ELSE enterFinally(logoScrape[i], "", "launch"), files, unlinks)

\* browser.newPage settles (lines 213-214).
logoNewPageSettles(i, ok) ==
  /\ At(i, "newPage")
  /\ ScrapeStep(i, IF ok THEN [logoScrape[i] EXCEPT !.page = TRUE, !.pc = "setViewport"]
                   ELSE enterFinally(logoScrape[i], "", "newPage"), files, unlinks)

\* page.setViewport settles (lines 214-222).
logoSetViewportSettles(i, ok) ==
  /\ At(i, "setViewport")
  /\ ScrapeStep(i, IF ok THEN [logoScrape[i] EXCEPT !.pc = "goto"]
                   ELSE enterFinally(logoScrape[i], "", "setViewport"), files, unlinks)

\* page.goto settles and, on success, the two seconds of line 227 pass
\* (lines 219-230).
logoGotoSettles(i, ok) ==
  /\ At(i, "goto")
  /\ ScrapeStep(i, IF ok THEN [logoScrape[i] EXCEPT !.pc = "evaluate"]
                   ELSE enterFinally(logoScrape[i], "", "goto"), files, unlinks)

\* page.evaluate settles (lines 230-326, 60-63): no image or no source
\* returns null; otherwise downloadAndSaveImage is called and awaits mkdir.
logoEvaluateSettles(i, ok, src) ==
  /\ At(i, "evaluate")
  /\ ScrapeStep(i,
       IF ~ok THEN enterFinally(logoScrape[i], "", "evaluate")
       ELSE IF src = "none" THEN enterFinally(logoScrape[i], "", "noImage")
       ELSE [logoScrape[i] EXCEPT !.src = src, !.pc = "mkdir"],
       files, unlinks)

\* The file f as createWriteStream or writeFile opens it: created, or
\* emptied if it was there.
Opened(f) ==
  [files EXCEPT ![f] = [st |-> "partial", gen |-> @.gen + 1,
                        born |-> IF @.st = "none" THEN @.gen + 1 ELSE @.born]]

\* fs.mkdir settles, its error ignored (lines 62-116): a data URL the
\* pattern does not match returns null; a base64 PNG is written with
\* writeFile; for any other URL the request is sent.
mkdirSettles(i) ==
  /\ At(i, "mkdir")
  /\ LET s == logoScrape[i]
         f == <<s.symbol, ".png">>
     IN IF s.src = "data:image/bad"
        THEN ScrapeStep(i, enterFinally(s, "", "download"), files, unlinks)
        ELSE IF s.src = "data:image/png"
        THEN ScrapeStep(i, [s EXCEPT !.pc = "writeFile", !.file = f,
                                     !.gen = files[f].gen + 1],
                        Opened(f), unlinks)
        ELSE ScrapeStep(i, [s EXCEPT !.pc = "request"], files, unlinks)

\* The file of scrape s is in the directory as s opened it.
Mine(s) == files[s.file].st # "none" /\ files[s.file].gen = s.gen

Completed(s) ==
  IF Mine(s) THEN [files EXCEPT ![s.file].st = "complete"] ELSE files

\* fs.writeFile settles (lines 101-107): the path is returned, or null.
writeFileSettles(i, ok) ==
  /\ At(i, "writeFile")
  /\ LET s == logoScrape[i]
     IN IF ok
        THEN ScrapeStep(i, enterFinally([s EXCEPT !.wrote = Mine(s)],
                                        LogoRef(s.file[1], s.file[2]), "none"),
                        Completed(s), unlinks)
        ELSE ScrapeStep(i, enterFinally(s, "", "download"), files, unlinks)

\* The image server answers the request (lines 116-178): a redirect calls
\* downloadAndSaveImage again, and the code keeps no count of the redirects
\* it has followed (redirects records them up to MaxRedirects); another
\* status than 200 and a connection
\* error reject; 200 opens the file named by the content type and pipes the
\* body into it.
imageResponds(i, response) ==
  /\ At(i, "request")
  /\ LET s == logoScrape[i]
         f == <<s.symbol, IF response = "image/jpeg" THEN ".jpg" ELSE ".png">>
     IN IF response = "redirect"
        THEN ScrapeStep(i, [s EXCEPT !.pc = "mkdir",
                                     !.redirects = IF @ < MaxRedirects THEN @ + 1 ELSE @],
                        files, unlinks)
        ELSE IF response \in {"status", "error"}
        THEN ScrapeStep(i, enterFinally(s, "", "download"), files, unlinks)
        ELSE ScrapeStep(i, [s EXCEPT !.pc = "streaming", !.file = f,
                                     !.gen = files[f].gen + 1],
                        Opened(f), unlinks)

\* The write stream emits 'finish' (lines 167-170, 326-331).
fileStreamFinish(i) ==
  /\ At(i, "streaming")
  /\ LET s == logoScrape[i]
     IN ScrapeStep(i, enterFinally([s EXCEPT !.wrote = Mine(s)],
                                   LogoRef(s.file[1], s.file[2]), "none"),
                   Completed(s), unlinks)

\* A mutation of fileStreamError that leaves the file where it is.
fileStreamErrorNoUnlink(i) ==
  /\ At(i, "streaming")
  /\ ScrapeStep(i, enterFinally(logoScrape[i], "", "write"), files, unlinks)

\* The write stream emits 'error' (lines 172-175): fs.unlink is called, its
\* outcome ignored, and the download rejects.
fileStreamError(i) ==
  /\ At(i, "streaming")
  /\ ScrapeStep(i, enterFinally(logoScrape[i], "", "write"), files,
                [unlinks EXCEPT ![logoScrape[i].file] = "pending"])

\* The response stream is destroyed before its end (the connection is
\* lost).  response.pipe does not end or destroy the write stream then, and
\* nothing listens to the response: neither 'finish' nor 'error' follows.
responseAborts(i) ==
  /\ At(i, "streaming")
  /\ ScrapeStep(i, [logoScrape[i] EXCEPT !.pc = "stalled", !.failure = "aborted"],
                files, unlinks)

\* fs.unlink completes (line 173): the file is gone, or the call failed.
unlinkSettles(f, ok) ==
  /\ unlinks[f] = "pending"
  /\ unlinks' = [unlinks EXCEPT ![f] = IF ok THEN "done" ELSE "failed"]
  /\ files' = IF ok THEN [files EXCEPT ![f].st = "none"] ELSE files
  /\ UNCHANGED <<pendingRequests, stocks, acquire, logoScrape>>
  /\ LogoFrame

\* page.close settles, its error caught (lines 340-360).
logoClosePageSettles(i, ok) ==
  /\ At(i, "closePage")
  /\ ScrapeStep(i, [logoScrape[i] EXCEPT !.pc = "closeBrowser"], files, unlinks)

\* browser.close settles, its error caught (lines 355-380): the call
\* resolves with the value the try or the catch returned.
logoCloseBrowserSettles(i, ok) ==
  /\ At(i, "closeBrowser")
  /\ ScrapeStep(i, [logoScrape[i] EXCEPT !.pc = "resolved", !.result = logoScrape[i].ret],
                files, unlinks)

\* What the actions of an acquisition leave alone besides LogoFrame.
AcquireStep(acq) ==
  /\ acquire' = acq
  /\ UNCHANGED <<pendingRequests, stocks, files, unlinks, logoScrape>>
  /\ LogoFrame

\* processStockLogo(stock) up to its first await (lines 482-491).  The
\* caller read the row from the store earlier: it is the row as it is, or
\* the row as it was before a logo was stored.
processStockLogo(id, stale) ==
  /\ Len(acquire) < MaxAcquires
  /\ \E row \in stocks :
       /\ row.id = id
       /\ AcquireStep(Append(acquire,
            AcquireRec("lazy", row, IF stale THEN "" ELSE row.logo)))

\* syncStocksWithLogos from the answer of findMany to the first await of the
\* loop (stockSyncService.js lines 556-575): the turn of a stock that has no
\* logo in the store.
syncStocksWithLogos(id) ==
  /\ Len(acquire) < MaxAcquires
  /\ \E row \in stocks :
       /\ row.id = id
       /\ row.logo = ""
       /\ AcquireStep(Append(acquire, AcquireRec("eager", row, "")))

\* No file was found.  processStockLogo calls requestDeduplicator.execute
\* with the key of the symbol (stockService.js lines 494-498): it is given
\* the promise of the entry, or scrapeStockLogo is called and its promise
\* stored.  The backfill loop calls scrapeStockLogo itself
\* (stockSyncService.js line 587).
scrapeIfMissing(a) ==
  LET acq == acquire[a]
      k == scrapeKey(acq.symbol)
      n == Len(logoScrape) + 1
  IN IF acq.path = "lazy" /\ pendingRequests[k] # 0
     THEN /\ acquire' = [acquire EXCEPT ![a].pc = "scraping",
                                         ![a].scrape = pendingRequests[k]]
          /\ UNCHANGED <<pendingRequests, logoScrape>>
     ELSE /\ logoScrape' = Append(logoScrape,
               ScrapeRec(acq.symbol, IF acq.path = "lazy" THEN k ELSE "", a))
          /\ pendingRequests' =
               IF acq.path = "lazy" THEN MapSet(pendingRequests, k, n)
               ELSE pendingRequests
          /\ acquire' = [acquire EXCEPT ![a].pc = "scraping", ![a].scrape = n,
                                         ![a].started = TRUE]

\* A mutation of accessSettles that tries the first extension only.
accessFirstExtensionOnly(a) ==
  /\ a \in DOMAIN acquire
  /\ acquire[a].pc = "access"
  /\ LET acq == acquire[a]
         symbol == normalizedQuery(acq.symbol)
         ext == LOGO_EXTENSIONS[1]
         exists == <<symbol, ext>> \in LogoFiles /\ files[<<symbol, ext>>].st # "none"
     IN IF exists
        THEN /\ acquire' = [acquire EXCEPT ![a].pc = "updating", ![a].found = TRUE,
                                            ![a].result = LogoRef(symbol, ext)]
             /\ UNCHANGED <<pendingRequests, logoScrape>>
        ELSE scrapeIfMissing(a)
  /\ UNCHANGED <<stocks, files, unlinks>>
  /\ LogoFrame

\* fs.access of checkStockLogo settles for the extension in turn
\* (stockService.js lines 36-47, 491-507; stockSyncService.js lines
\* 575-587): a file that is there is the logo and its path goes to the
\* store; otherwise the next extension is tried, and after the last one the
\* logo is scraped.
accessSettles(a) ==
  /\ a \in DOMAIN acquire
  /\ acquire[a].pc = "access"
  /\ LET acq == acquire[a]
         symbol == normalizedQuery(acq.symbol)
         ext == LOGO_EXTENSIONS[acq.ext]
         exists == <<symbol, ext>> \in LogoFiles /\ files[<<symbol, ext>>].st # "none"
     IN IF exists
        THEN /\ acquire' = [acquire EXCEPT ![a].pc = "updating", ![a].found = TRUE,
                                            ![a].result = LogoRef(symbol, ext)]
             /\ UNCHANGED <<pendingRequests, logoScrape>>
        ELSE IF acq.ext < Len(LOGO_EXTENSIONS)
        THEN /\ acquire' = [acquire EXCEPT ![a].ext = @ + 1]
             /\ UNCHANGED <<pendingRequests, logoScrape>>
        ELSE scrapeIfMissing(a)
  /\ UNCHANGED <<stocks, files, unlinks>>
  /\ LogoFrame

\* prisma.stock.update settles (stockService.js lines 502-514;
\* stockSyncService.js lines 579-615).  processStockLogo catches a failure
\* and returns the path; the backfill loop counts the stock as failed.
stockUpdateSettles(a, ok) ==
  /\ a \in DOMAIN acquire
  /\ acquire[a].pc = "updating"
  /\ stocks' = IF ok
               THEN { IF row.id = acquire[a].stockId
                      THEN [row EXCEPT !.logo = acquire[a].result] ELSE row :
                      row \in stocks }
               ELSE stocks
  /\ acquire' = [acquire EXCEPT ![a].pc = "done",
                                 ![a].failed = (~ok /\ acquire[a].path = "eager")]
  /\ UNCHANGED <<pendingRequests, files, unlinks, logoScrape>>
  /\ LogoFrame

StoredStockIds == {row.id : row \in SeedStocks}

Acquiring(path) ==
  \E a \in DOMAIN acquire : acquire[a].path = path /\ acquire[a].pc # "done"

\* Searches that overlap one another and one backfill run.
NextLogo ==
  \/ \E id \in StoredStockIds, stale \in BOOLEAN : processStockLogo(id, stale)
  \/ \E id \in StoredStockIds : ~Acquiring("eager") /\ syncStocksWithLogos(id)
  \/ \E a \in DOMAIN acquire : accessSettles(a)
  \/ \E a \in DOMAIN acquire, ok \in BOOLEAN : stockUpdateSettles(a, ok)
  \/ \E i \in DOMAIN logoScrape, ok \in BOOLEAN : logoLaunchSettles(i, ok)
  \/ \E i \in DOMAIN logoScrape, ok \in BOOLEAN : logoNewPageSettles(i, ok)
  \/ \E i \in DOMAIN logoScrape, ok \in BOOLEAN : logoSetViewportSettles(i, ok)
  \/ \E i \in DOMAIN logoScrape, ok \in BOOLEAN : logoGotoSettles(i, ok)
  \/ \E i \in DOMAIN logoScrape, ok \in BOOLEAN, src \in ImageSources :
       logoEvaluateSettles(i, ok, src)
  \/ \E i \in DOMAIN logoScrape : mkdirSettles(i)
  \/ \E i \in DOMAIN logoScrape, ok \in BOOLEAN : writeFileSettles(i, ok)
  \/ \E i \in DOMAIN logoScrape, response \in ImageResponses : imageResponds(i, response)
  \/ \E i \in DOMAIN logoScrape : fileStreamFinish(i)
  \/ \E i \in DOMAIN logoScrape : fileStreamError(i)
  \/ \E i \in DOMAIN logoScrape : responseAborts(i)
  \/ \E f \in LogoFiles, ok \in BOOLEAN : unlinkSettles(f, ok)
  \/ \E i \in DOMAIN logoScrape, ok \in BOOLEAN : logoClosePageSettles(i, ok)
  \/ \E i \in DOMAIN logoScrape, ok \in BOOLEAN : logoCloseBrowserSettles(i, ok)

SpecLogo == Init /\ [][NextLogo]_vars

\* Acquisitions that follow one another.
NextDownload ==
  \/ \E id \in StoredStockIds, stale \in BOOLEAN :
       ~Acquiring("lazy") /\ ~Acquiring("eager") /\ processStockLogo(id, stale)
  \/ \E id \in StoredStockIds :
       ~Acquiring("lazy") /\ ~Acquiring("eager") /\ syncStocksWithLogos(id)
  \/ \E a \in DOMAIN acquire : accessSettles(a)
  \/ \E a \in DOMAIN acquire, ok \in BOOLEAN : stockUpdateSettles(a, ok)
  \/ \E i \in DOMAIN logoScrape, ok \in BOOLEAN : logoLaunchSettles(i, ok)
  \/ \E i \in DOMAIN logoScrape, ok \in BOOLEAN : logoNewPageSettles(i, ok)
  \/ \E i \in DOMAIN logoScrape, ok \in BOOLEAN : logoSetViewportSettles(i, ok)
  \/ \E i \in DOMAIN logoScrape, ok \in BOOLEAN : logoGotoSettles(i, ok)
  \/ \E i \in DOMAIN logoScrape, ok \in BOOLEAN, src \in ImageSources :
       logoEvaluateSettles(i, ok, src)
  \/ \E i \in DOMAIN logoScrape : mkdirSettles(i)
  \/ \E i \in DOMAIN logoScrape, ok \in BOOLEAN : writeFileSettles(i, ok)
  \/ \E i \in DOMAIN logoScrape, response \in ImageResponses : imageResponds(i, response)
  \/ \E i \in DOMAIN logoScrape : fileStreamFinish(i)
  \/ \E i \in DOMAIN logoScrape : fileStreamError(i)
  \/ \E i \in DOMAIN logoScrape : responseAborts(i)
  \/ \E f \in LogoFiles, ok \in BOOLEAN : unlinkSettles(f, ok)
  \/ \E i \in DOMAIN logoScrape, ok \in BOOLEAN : logoClosePageSettles(i, ok)
  \/ \E i \in DOMAIN logoScrape, ok \in BOOLEAN : logoCloseBrowserSettles(i, ok)

SpecDownload == Init /\ [][NextDownload]_vars

\* Every promise that is awaited settles in the end: the event loop runs each
\* callback that is due, and the browser, the store, the file system and the
\* image server answer.
SpecDownloadLive == SpecDownload /\ WF_vars(NextDownload)

\* What the upstream answers in the weekly job: an error, or a listing that
\* holds a stored symbol once or twice.
BackfillResponses ==
  LET rec == CHOOSE r \in UpstreamRecords : r.symbol = <<"a", "a", "p", "l">>
  IN { [kind |-> "error", stocks |-> <<>>],
       [kind |-> "body", stocks |-> <<rec>>],
       [kind |-> "body", stocks |-> <<rec, rec>>] }

CatalogResolved == \E c \in DOMAIN catalog : catalog[c].pc = "resolved"

Busy == Acquiring("lazy") \/ Acquiring("eager") \/ SyncActive

\* Searches, then the weekly job (cronJobs.js lines 19-32,
\* stockSyncService.js lines 549-570): syncStocksWithLogos awaits the catalog
\* sync, and when it has resolved goes through the stocks without a logo.
NextBackfill ==
  \/ \E id \in StoredStockIds, stale \in BOOLEAN : ~Busy /\ processStockLogo(id, stale)
  \/ (~Busy /\ syncAllUSCommonStocks)
  \/ \E i \in DOMAIN retry, response \in BackfillResponses : fnSettles(i, response)
  \/ \E i \in DOMAIN retry : backoffElapses(i)
  \/ \E c \in DOMAIN catalog, ok \in BOOLEAN : upsertSettles(c, ok)
  \/ tick
  \/ \E id \in StoredStockIds : ~Busy /\ CatalogResolved /\ syncStocksWithLogos(id)
  \/ \E a \in DOMAIN acquire : accessSettles(a)
  \/ \E a \in DOMAIN acquire, ok \in BOOLEAN : stockUpdateSettles(a, ok)
  \/ \E i \in DOMAIN logoScrape, ok \in BOOLEAN : logoLaunchSettles(i, ok)
  \/ \E i \in DOMAIN logoScrape, ok \in BOOLEAN : logoNewPageSettles(i, ok)
  \/ \E i \in DOMAIN logoScrape, ok \in BOOLEAN : logoSetViewportSettles(i, ok)
  \/ \E i \in DOMAIN logoScrape, ok \in BOOLEAN : logoGotoSettles(i, ok)
  \/ \E i \in DOMAIN logoScrape, ok \in BOOLEAN, src \in ImageSources :
       logoEvaluateSettles(i, ok, src)
  \/ \E i \in DOMAIN logoScrape : mkdirSettles(i)
  \/ \E i \in DOMAIN logoScrape, ok \in BOOLEAN : writeFileSettles(i, ok)
  \/ \E i \in DOMAIN logoScrape, response \in ImageResponses : imageResponds(i, response)
  \/ \E i \in DOMAIN logoScrape : fileStreamFinish(i)
  \/ \E i \in DOMAIN logoScrape : fileStreamError(i)
  \/ \E i \in DOMAIN logoScrape : responseAborts(i)
  \/ \E f \in LogoFiles, ok \in BOOLEAN : unlinkSettles(f, ok)
  \/ \E i \in DOMAIN logoScrape, ok \in BOOLEAN : logoClosePageSettles(i, ok)
  \/ \E i \in DOMAIN logoScrape, ok \in BOOLEAN : logoCloseBrowserSettles(i, ok)

SpecBackfill == Init /\ [][NextBackfill]_vars

(***************************************************************************)
(* Claims about BrowserManager                                             *)
(***************************************************************************)

\* The calls that were given the promise of launch l.
Waiters(l) == {i \in DOMAIN req : req[i].launch = l}

\* C4: initialization is coalesced.  At most one launch is in flight; a call of
\* initialize, getBrowser or createPage that finds no connected session starts
\* a launch only when none is in flight and otherwise is given the launch in
\* flight; all callers of one launch receive the same session, the one that
\* launch created.
C4_LaunchCoalesced ==
  /\ Cardinality(Launching) <= 1
  /\ \A i \in DOMAIN req :
       /\ req[i].held => ~req[i].started /\ req[i].launch = 0
       /\ (~req[i].held /\ req[i].inFlight # {}) =>
            ~req[i].started /\ req[i].inFlight = {req[i].launch}
       /\ (~req[i].held /\ req[i].inFlight = {}) => req[i].started
       /\ req[i].launch # 0 => req[i].sess \in {0, req[i].launch}
  /\ \A l \in 1..MaxSessions :
       /\ Cardinality({i \in Waiters(l) : req[i].started}) <= 1
       /\ \A i, j \in Waiters(l) : req[i].sess = req[j].sess

\* An initialize, a getBrowser and a createPage call made with no session held
\* shared one launch and received its session.
C4_Witness ==
  /\ Len(req) = 3
  /\ {req[i].kind : i \in 1..3} = {"initialize", "getBrowser", "createPage"}
  /\ \A i \in 1..3 : req[i].launch = 1 /\ req[i].sess = 1
  /\ Cardinality({i \in 1..3 : req[i].started}) = 1
  /\ session[2] = "none"

\* A launch fails in this step.
LaunchFails(l) == session[l] = "launching" /\ session'[l] = "failed"

\* C5 as stated: when the launch fails every caller waiting on it receives the
\* launch error, and the manager is left with browser = null,
\* initializing = false and initPromise = null.
C5_FailureResetsToNull ==
  [][\A l \in 1..MaxSessions :
       LaunchFails(l) =>
         /\ \A i \in Waiters(l) : req'[i].st = "failed" /\ req'[i].err = l
         /\ browser' = 0
         /\ initializing' = FALSE
         /\ initPromise' = 0]_vars

\* C5 as amended: when the launch fails every caller waiting on it receives the
\* launch error, initializing = false and initPromise = null, and the manager
\* holds no connected session: browser is what it was before the launch, null
\* or a disconnected session, so the next getBrowser starts a new launch.
C5_FailureResets ==
  [][\A l \in 1..MaxSessions :
       LaunchFails(l) =>
         /\ Waiters(l) # {}
         /\ \A i \in Waiters(l) : req'[i].st = "failed" /\ req'[i].err = l
         /\ browser' = browser
         /\ browser' = 0 \/ session'[browser'] \in {"disconnected", "closed"}
         /\ initializing' = FALSE
         /\ initPromise' = 0]_vars

\* The first launch failed under two waiters, both received its error, and the
\* next getBrowser call started a second launch.
C5_Witness ==
  /\ Len(req) = 3
  /\ session[1] = "failed"
  /\ \A i \in {1, 2} : req[i].launch = 1 /\ req[i].st = "failed" /\ req[i].err = 1
  /\ req[3].kind = "getBrowser" /\ req[3].started /\ req[3].launch = 2

\* Call i receives its session in this step.
Receives(i) == (i \notin DOMAIN req \/ req[i].sess = 0) /\ req'[i].sess # 0

\* C6: a getBrowser call that finds the held session disconnected and no
\* launch in flight starts a launch; the session a caller receives is
\* connected and is the held session as it is received, never the disconnected
\* session the caller found.
C6_NeverReturnsDisconnected ==
  [][\A i \in DOMAIN req' :
       /\ (i \notin DOMAIN req /\ req'[i].stale # 0) =>
            /\ req'[i].launch # 0
            /\ req'[i].inFlight = {} => req'[i].started
       /\ Receives(i) =>
            /\ session'[req'[i].sess] = "connected"
            /\ browser' = req'[i].sess
            /\ req'[i].sess # req'[i].stale]_vars

\* A getBrowser call found session 1 held and disconnected, launched session 2
\* and returned it; session 2 replaced session 1.
C6_Witness ==
  \E i \in DOMAIN req :
    /\ req[i].kind = "getBrowser"
    /\ req[i].stale = 1
    /\ req[i].started
    /\ req[i].st = "done" /\ req[i].ret = 2
    /\ browser = 2

\* The pages opened by scrape i: the page of its createPage call and the tab
\* its click opened.
OpenedBy(i) == {p \in DOMAIN page : page[p].by = i}

\* C7: when a scrape has returned, every page it opened has been closed
\* exactly once.
C7_PagesClosedOnReturn ==
  \A i \in DOMAIN scrape :
    scrape[i].st = "returned" =>
      \A p \in OpenedBy(i) : page[p].st = "closed" /\ page[p].closed = 1

\* C8: when the process has exited after SIGTERM or SIGINT, no session the
\* manager launched is being launched or connected.
C8_ClosedBeforeExit ==
  proc = "exited" => \A s \in 1..MaxSessions : session[s] \notin {"launching", "connected"}

\* The closeBrowser calls that called close() on session s and did not fail.
Closes(s) == {i \in DOMAIN closer : closer[i].sess = s /\ closer[i].st \in {"closing", "done"}}

\* C9: closeBrowser calls, sequential or overlapping, close a session at most
\* once, and a call made with no session held does nothing and does not fail.
C9_CloseAtMostOnce ==
  /\ \A s \in 1..MaxSessions : Cardinality(Closes(s)) <= 1
  /\ \A i \in DOMAIN closer : closer[i].sess = 0 => closer[i].st = "noop"

\* C10: closePage does nothing for a null or closed page and never passes an
\* error of page.close() to its caller.
C10_ClosePageNeverFails ==
  \A i \in DOMAIN pclose :
    /\ pclose[i].st # "failed"
    /\ pclose[i].page = 0 => pclose[i].st = "noop"

(***************************************************************************)
(* Claims about RequestDeduplicator                                        *)
(***************************************************************************)

\* C1: while an execution for a key is outstanding, every execute call for
\* that key invokes no operation of its own, so at most one operation per key
\* is ever active, and the caller resumes with the outcome (fulfilled or
\* rejected, with the value or error) of that one outstanding execution.
C1_Coalesced ==
  /\ \A k \in Keys : Cardinality(Outstanding(k)) <= 1
  /\ \A c \in 1..Len(call) :
       call[c].during # {} =>
         /\ c \notin invoked
         /\ call[c].during = {call[c].got}
         /\ call[c].result # "waiting" =>
              /\ call[c].from \in call[c].during
              /\ promise[call[c].from] = call[c].result
              /\ call[call[c].from].result \in {"waiting", call[c].result}

\* Two later callers joined the execution started by the first call, and all
\* three resumed with its error.
C1_Witness ==
  /\ Len(call) = 3
  /\ \A c \in {2, 3} : call[c].during = {1}
  /\ \A c \in 1..3 : call[c].result = "rejected" /\ call[c].from = 1
  /\ invoked = {1}

\* C2: the keys with an entry are exactly the keys whose operation is
\* outstanding, so with no operation outstanding getPendingCount() is 0 and
\* hasPendingRequest(k) is false for every k.
C2_NoLeak ==
  /\ \A k \in Keys : hasPendingRequest(k) <=> Outstanding(k) # {}
  /\ running = {} => getPendingCount = 0

\* C3: an execute call made when no execution for its key is outstanding
\* invokes its own operation and resumes with that operation's outcome, never
\* with the outcome stored by an earlier execution.
C3_FreshAfterCompletion ==
  \A c \in 1..Len(call) :
    call[c].during = {} =>
      /\ c \in invoked
      /\ call[c].got = c
      /\ call[c].result # "waiting" => call[c].from = c

(***************************************************************************)
(* Claims about retryWithBackoff                                           *)
(***************************************************************************)
Failed(r) == {k \in DOMAIN r.outcomes : ~r.outcomes[k].ok}

\* C11: a retryWithBackoff call whose fn fails on every call has called fn
\* exactly maxRetries + 1 times when it throws, and throws the error of the
\* last call; a call whose fn first succeeds on call k has called fn exactly
\* k times, k <= maxRetries + 1, and returns the result of call k.  fn is
\* never called again after a success.
C11_AttemptsAndOutcome ==
  \A i \in DOMAIN retry :
    LET r == retry[i]
        k == Len(r.outcomes)
    IN /\ r.pc = "thrown" =>
            /\ k = r.maxRetries + 1
            /\ Failed(r) = 1..k
            /\ r.error = k
       /\ r.pc = "returned" =>
            /\ k \in 1..(r.maxRetries + 1)
            /\ Failed(r) = 1..(k - 1)
            /\ r.result = r.outcomes[k].val
       /\ r.pc \in {"calling", "waiting"} =>
            /\ Failed(r) = 1..k
            /\ k <= r.maxRetries

C11_Witness ==
  \E i \in DOMAIN retry :
    /\ retry[i].owner = 0
    /\ retry[i].maxRetries = 2
    /\ retry[i].pc = "returned"
    /\ Len(retry[i].outcomes) = 3
    /\ retry[i].result # <<>>

\* C12: the n-th wait of a retryWithBackoff call (n counted from 0) is
\* delay * 2^n; every failed attempt but the last allowed one is followed by
\* exactly one wait, and neither the final failed attempt nor a successful
\* attempt is followed by a wait.  The catalog fetch, when it fails
\* throughout, waits 2000, 4000 and 8000 ms.
C12_BackoffWaits ==
  \A i \in DOMAIN retry :
    LET r == retry[i]
    IN /\ \A n \in DOMAIN r.waits : r.waits[n] = r.delay * 2^(n - 1)
       /\ r.pc \in {"thrown", "returned"} => Len(r.waits) = Len(r.outcomes) - 1
       /\ r.pc \in {"calling", "waiting"} =>
            Len(r.waits) = Cardinality(Failed(r))
       /\ (r.owner # 0 /\ r.pc = "thrown") => r.waits = <<2000, 4000, 8000>>

C12_Witness ==
  \E i \in DOMAIN retry :
    /\ retry[i].owner # 0
    /\ retry[i].pc = "thrown"
    /\ Len(retry[i].waits) = 3

(***************************************************************************)
(* Claims about syncAllUSCommonStocks and upsertStock                      *)
(***************************************************************************)
\* C17: a catalog run attempts the fetched records one by one in order, each
\* exactly once, and a failing upsert never ends the run: a run that has
\* resolved attempted every record, fetched is the number of records fetched,
\* failed the number of records whose upsert failed, upserted = fetched -
\* failed, and errors holds one {symbol, error} entry per failed record, in
\* order.
C17_BatchStatistics ==
  \A c \in DOMAIN catalog :
    LET run == catalog[c]
        stats == run.stats
        n == Len(run.attempted)
        pending == IF run.pc = "upserting" THEN 1 ELSE 0
    IN /\ run.attempted = [k \in 1..n |-> k]
       /\ n <= Len(run.stocks)
       /\ stats.failed = Len(run.failedAt)
       /\ stats.upserted + stats.failed + pending = n
       /\ Len(stats.errors) = stats.failed
       /\ \A j \in DOMAIN stats.errors :
            stats.errors[j].symbol = run.stocks[run.failedAt[j]].symbol
       /\ run.pc = "resolved" =>
            /\ n = Len(run.stocks)
            /\ stats.fetched = Len(run.stocks)
            /\ stats.upserted = stats.fetched - stats.failed
       /\ run.pc = "rejected" => n = 0

C17_Witness ==
  \E c \in DOMAIN catalog :
    /\ catalog[c].pc = "resolved"
    /\ catalog[c].stats.fetched = 2
    /\ catalog[c].failedAt = <<1>>
    /\ catalog[c].stats.upserted = 1

\* C18: a catalog run rejects only when the catalog fetch failed on all 4
\* attempts, and then it attempted no record and wrote nothing; once the
\* fetch has succeeded the run never rejects, whatever the records and the
\* upserts do.
C18_RejectsOnlyOnFetchFailure ==
  \A c \in DOMAIN catalog :
    LET run == catalog[c]
        r == retry[run.retry]
    IN /\ run.pc = "rejected" =>
            /\ r.pc = "thrown"
            /\ Len(r.outcomes) = 4
            /\ Failed(r) = 1..4
            /\ run.attempted = <<>>
            /\ run.writes = 0
       /\ r.pc = "returned" => run.pc \in {"upserting", "resolved"}
       /\ r.pc = "thrown" => run.pc = "rejected"

C18_Witness ==
  \E d \in DOMAIN catalog :
    /\ catalog[d].pc = "resolved"
    /\ Len(retry[catalog[d].retry].outcomes) = 4
    /\ \E j, k \in DOMAIN catalog[d].stats.errors :
         /\ catalog[d].stats.errors[j].symbol = <<>>
         /\ catalog[d].stats.errors[k].error = "store"

WithoutUpdatedAt(table) ==
  {[f \in DOMAIN row \ {"updatedAt"} |-> row[f]] : row \in table}

Upsertable == {rec \in UpstreamRecords : rec.symbol # <<>>}

OnePerCanonicalSymbol(table) ==
  \A a, b \in table :
    trim(toUpperCase(a.symbol)) = trim(toUpperCase(b.symbol)) => a = b

SameRow(table, r1, r2) ==
  \A t \in 0..MaxClock :
    LET once == upsertStock(table, r1, t)
        both == upsertStock(once, r2, t)
    IN /\ Cardinality(both) = Cardinality(once)
       /\ {row.id : row \in both} = {row.id : row \in once}
       /\ \E row \in both :
            /\ row.symbol = trim(toUpperCase(r2.symbol))
            /\ row.updatedAt = t

\* The step in which the store applies record i of run c, the record before it
\* having been applied too.
AppliesAfterApplied(c) ==
  /\ catalog[c].pc = "upserting"
  /\ catalog'[c].writes = catalog[c].writes + 1
  /\ catalog[c].i >= 2
  /\ \A j \in DOMAIN catalog[c].failedAt : catalog[c].failedAt[j] # catalog[c].i - 1

ReappliesRecord(c) ==
  /\ AppliesAfterApplied(c)
  /\ catalog[c].stocks[catalog[c].i] = catalog[c].stocks[catalog[c].i - 1]

AppliesOtherSpelling(c) ==
  /\ AppliesAfterApplied(c)
  /\ trim(toUpperCase(catalog[c].stocks[catalog[c].i].symbol))
       = trim(toUpperCase(catalog[c].stocks[catalog[c].i - 1].symbol))

\* C19 as stated: applying a record that has just been applied leaves the
\* stored instruments as they are; applying a record whose symbol differs
\* from the one just applied only in letter case or surrounding white space
\* writes the same row; and the store holds at most one instrument per
\* canonical symbol.
C19_UpsertIdempotent ==
  [][ /\ \A c \in DOMAIN catalog : ReappliesRecord(c) => stocks' = stocks
      /\ \A c \in DOMAIN catalog :
           AppliesOtherSpelling(c) =>
             {row.id : row \in stocks'} = {row.id : row \in stocks}
      /\ OnePerCanonicalSymbol(stocks') ]_vars

\* C19 as amended: applying a record that has just been applied leaves the
\* stored instruments as they are in every field but updatedAt, which takes
\* the time of the later call; the same holds of a second application of
\* any record to any reachable store; two records whose symbols differ only
\* in letter case or surrounding white space write the same row; and the
\* store holds at most one instrument per canonical symbol.
C19_UpsertIdempotentButUpdatedAt ==
  [][ /\ \A c \in DOMAIN catalog :
           ReappliesRecord(c) => WithoutUpdatedAt(stocks') = WithoutUpdatedAt(stocks)
      /\ \A c \in DOMAIN catalog :
           AppliesOtherSpelling(c) =>
             {row.id : row \in stocks'} = {row.id : row \in stocks}
      /\ \A rec \in Upsertable : \A t1, t2 \in 0..MaxClock :
           t1 <= t2 =>
             WithoutUpdatedAt(upsertStock(upsertStock(stocks', rec, t1), rec, t2))
               = WithoutUpdatedAt(upsertStock(stocks', rec, t1))
      /\ \A r1, r2 \in Upsertable :
           trim(toUpperCase(r1.symbol)) = trim(toUpperCase(r2.symbol))
             => SameRow(stocks', r1, r2)
      /\ OnePerCanonicalSymbol(stocks') ]_vars

\* A run has applied "B" and then "b ": one row for B, created by the first
\* and updated, at a later time, by the second.
C19_Witness ==
  /\ Cardinality(stocks) = 3
  /\ \E row \in stocks :
       /\ row.symbol = <<"B">>
       /\ row.displaySymbol = <<"b">>
       /\ row.updatedAt = 1
  /\ \E c \in DOMAIN catalog :
       /\ catalog[c].pc = "resolved"
       /\ catalog[c].writes = 2
       /\ Len(catalog[c].stocks) = 2
       /\ catalog[c].stocks[1].symbol = <<"B">>

(***************************************************************************)
(* Claims about syncNewsForAllWatchlistStocks and fetchAndSaveNewsForStock *)
(***************************************************************************)
TasksIn(run, states) == {k \in DOMAIN run.task : run.task[k] \in states}

\* C13: within one run the instruments are processed one after another: at
\* most one company-news request is in flight, at most one instrument is
\* being fetched or saved, and instrument k + 1 is not started before the
\* fetch and the article writes of instrument k have finished.
C13_OneInstrumentAtATime ==
  \A r \in DOMAIN newsRun :
    LET run == newsRun[r]
    IN /\ Cardinality(TasksIn(run, {"fetching"})) <= 1
       /\ Cardinality(TasksIn(run, {"fetching", "saving"})) <= 1
       /\ \A k \in DOMAIN run.task :
            (k > 1 /\ run.task[k] # "pending") => run.task[k - 1] = "done"
       /\ run.pc \in {"findUnique", "updating", "creating"} =>
            TasksIn(run, {"fetching"}) = {}

C13_Witness ==
  \E r \in DOMAIN newsRun :
    /\ newsRun[r].task = <<"done", "fetching">>
    /\ newsRun[r].fetchResult = <<"ok">>
    /\ news # {}

\* C14: a failed fetch does not stop the run, and the fixed delay of 1100 ms
\* lies between the end of every instrument but the last and the start of
\* the next one, whether the instrument succeeded or failed: instrument k is
\* started after exactly k - 1 delays and a run over N >= 1 instruments ends
\* with every instrument processed and exactly N - 1 delays.
C14_DelayBetweenInstruments ==
  \A r \in DOMAIN newsRun :
    LET run == newsRun[r]
        N == Len(run.stocks)
    IN /\ \A d \in DOMAIN run.delays : run.delays[d] = 1100
       /\ \A k \in TasksIn(run, {"fetching", "saving"}) : Len(run.delays) = k - 1
       /\ run.pc = "delay" =>
            /\ run.i < N
            /\ Len(run.delays) = run.i
            /\ TasksIn(run, {"done"}) = 1..run.i
       /\ (run.pc = "done" /\ N >= 1) =>
            /\ TasksIn(run, {"done"}) = 1..N
            /\ Len(run.fetchResult) = N
            /\ Len(run.delays) = N - 1

C14_Witness ==
  \E r \in DOMAIN newsRun :
    /\ newsRun[r].pc = "done"
    /\ newsRun[r].fetchResult = <<"failed", "ok">>
    /\ Len(newsRun[r].delays) = 1

FetchesWith(run, result) ==
  Cardinality({k \in DOMAIN run.fetchResult : run.fetchResult[k] = result})

\* C15: in the summary of a run that processed its instruments, errorCount
\* is the number of instruments whose upstream fetch failed, successCount the
\* number whose fetch succeeded, and the two add up to totalStocks.
C15_CountsFailedFetches ==
  \A r \in DOMAIN newsRun :
    LET run == newsRun[r]
    IN (run.pc = "done" /\ "errorCount" \in run.summary.fields) =>
         /\ run.summary.errorCount = FetchesWith(run, "failed")
         /\ run.summary.successCount = FetchesWith(run, "ok")
         /\ run.summary.successCount + run.summary.errorCount = run.summary.totalStocks

\* C16: a run never rejects and ends with a summary: success = false and an
\* error, with no upstream request made, when the store failed while the
\* tracked set was computed; success = true, totalStocks = 0 and
\* totalArticles = 0, with no upstream request and no delay, when nothing is
\* tracked; success = true with totalStocks, totalArticles, successCount and
\* errorCount otherwise.
C16_AlwaysASummary ==
  \A r \in DOMAIN newsRun :
    LET run == newsRun[r]
        summary == run.summary
    IN /\ run.pc # "rejected"
       /\ run.pc # "done" => summary.fields = {}
       /\ (run.pc = "done" /\ run.storeFailed) =>
            /\ summary.fields = {"success", "error"}
            /\ ~summary.success
            /\ run.requests = 0
       /\ (run.pc = "done" /\ ~run.storeFailed /\ run.ids = {}) =>
            /\ summary.fields = {"totalStocks", "totalArticles", "success"}
            /\ summary.success
            /\ summary.totalStocks = 0
            /\ summary.totalArticles = Num(0)
            /\ run.requests = 0
            /\ run.delays = <<>>
       /\ (run.pc = "done" /\ ~run.storeFailed /\ run.ids # {}) =>
            /\ summary.fields = {"totalStocks", "totalArticles", "successCount",
                                  "errorCount", "success"}
            /\ summary.success
            /\ summary.totalStocks = Cardinality(run.ids)

C16_Witness ==
  \E r \in DOMAIN newsRun :
    /\ newsRun[r].pc = "done"
    /\ newsRun[r].storeFailed
    /\ newsRun[r].ids # {}

\* The step in which the store has answered the update or create of the
\* current article of run r.
StoreAnswersWrite(r) ==
  /\ newsRun[r].pc \in {"updating", "creating"}
  /\ newsRun'[r].last.outcome \in {"new", "updated", "conflict"}

\* C20: when the store answers the write of a relevant article, an article
\* whose upstream id was stored has its headline, summary and url replaced by
\* the new values and the number of stored articles is unchanged, and an
\* article whose upstream id was not stored has been added as one new row.
C20_UpsertOnUpstreamId ==
  [][ \A r \in DOMAIN newsRun :
        StoreAnswersWrite(r) =>
          LET article == newsRun[r].relevant[newsRun[r].a]
          IN IF \E row \in news : row.finnhubId = article.id
             THEN /\ Cardinality(news') = Cardinality(news)
                  /\ \E row \in news' :
                       /\ row.finnhubId = article.id
                       /\ row.headline = article.headline
                       /\ row.summary = article.summary
                       /\ row.url = article.url
             ELSE /\ Cardinality(news') = Cardinality(news) + 1
                  /\ \E row \in news' \ news : row.finnhubId = article.id ]_vars

\* C27: the totalArticles of the summary of a run is the number of articles
\* the run inserted plus the number it updated, whatever the instruments
\* yielded: relevant articles, no relevant article, or a failed fetch.
C27_TotalArticlesIsWrites ==
  \A r \in DOMAIN newsRun :
    LET run == newsRun[r]
    IN (run.pc = "done" /\ "totalArticles" \in run.summary.fields) =>
         run.summary.totalArticles = Num(run.inserted + run.updated)

\* The store operations of fetchAndSaveNewsForStock: the lookup, the update
\* and the create of the current article.
Storing(run) == run.pc \in {"findUnique", "updating", "creating"}

RelevantReceived(run) ==
  {k \in DOMAIN run.received : isArticleRelevant(run.received[k], run.stocks[run.i])}

\* C28: only relevant articles reach the store.  Every store operation of a
\* run is for an article that the upstream returned for the instrument being
\* processed and that is relevant to it, and every row a step adds or
\* changes carries the id, headline, summary and url of such an article; the
\* instrument's writes are no more than its relevant articles.
C28_OnlyRelevantStored ==
  [][ /\ \A r \in DOMAIN newsRun' :
           LET run == newsRun'[r]
           IN /\ Storing(run) =>
                   \E k \in RelevantReceived(run) : run.received[k] = run.relevant[run.a]
              /\ run.i > 0 =>
                   run.newCount + run.updatedCount <= Cardinality(RelevantReceived(run))
      /\ \A row \in news' \ news :
           \E r \in DOMAIN newsRun :
             /\ newsRun[r].pc \in {"updating", "creating"}
             /\ \E k \in RelevantReceived(newsRun[r]) :
                  LET article == newsRun[r].received[k]
                  IN /\ row.finnhubId = article.id
                     /\ row.headline = article.headline
                     /\ row.summary = article.summary
                     /\ row.url = article.url ]_vars

C28_Witness ==
  \E r \in DOMAIN newsRun :
    LET run == newsRun[r]
    IN /\ run.pc = "done"
       /\ Len(run.received) = 2
       /\ Cardinality(RelevantReceived(run)) = 1
       /\ run.inserted = 1
       /\ Cardinality(news) = 1

\* C21: whatever the runs did, overlapping runs included, no two stored
\* articles have the same upstream id and no two have the same url.
C21_IdAndUrlUnique ==
  \A row1, row2 \in news :
    row1 # row2 => (row1.finnhubId # row2.finnhubId /\ row1.url # row2.url)

\* Two overlapping runs have met on one article: a run looked the article up
\* for its second instrument and found nothing, the other run stored it for
\* the first instrument, and the create of the first run was rejected.
C21_Witness ==
  /\ Len(newsRun) = 2
  /\ \E r \in DOMAIN newsRun :
       LET run == newsRun[r]
       IN /\ run.pc = "done"
          /\ Len(run.stocks) = 2
          /\ Len(run.relevant) = 1
          /\ run.last = [existed |-> FALSE, outcome |-> "conflict"]
          /\ \E row \in news :
               /\ row.finnhubId = run.relevant[1].id
               /\ row.stockId = run.stocks[1].id

\* The instruments some user watches, as the store has them now.
Tracked == {us.stockId : us \in userStocks}

\* C29: every run computes its tracked set from the watch relationships the
\* store holds when the run reads them, and requests the news of each
\* distinct tracked instrument exactly once: the request count follows the
\* position in the list of distinct instruments, and a run that went through
\* its list has made as many requests as there are tracked instruments, none
\* when nothing is tracked.
C29_TrackedSetPerRun ==
  [][ \A r \in DOMAIN newsRun' :
        LET run == newsRun'[r]
            listed == {run.stocks[k].id : k \in DOMAIN run.stocks}
        IN /\ (r \in DOMAIN newsRun /\ newsRun[r].pc = "userStocks"
                 /\ run.pc # "userStocks" /\ ~run.storeFailed) =>
                /\ run.ids = Tracked
                /\ (run.pc = "done") = (Tracked = {})
           /\ run.ids = {} => run.requests = 0
           /\ run.requests = run.i
           /\ run.i <= Len(run.stocks)
           /\ run.stocks # <<>> =>
                /\ listed = run.ids
                /\ Len(run.stocks) = Cardinality(run.ids)
           /\ (run.pc = "done" /\ ~run.storeFailed) =>
                run.requests = Cardinality(run.ids) ]_vars

\* A run over an empty watch table made no request; then two users began to
\* watch the same instrument, and the next run requested its news once.
C29_Witness ==
  /\ Len(newsRun) = 2
  /\ newsRun[1].pc = "done" /\ newsRun[1].ids = {} /\ newsRun[1].requests = 0
  /\ newsRun[2].pc = "done" /\ newsRun[2].ids = {1} /\ newsRun[2].requests = 1
  /\ userStocks = {[userId |-> u, stockId |-> 1] : u \in Users}

(***************************************************************************)
(* Claims about isArticleRelevant                                          *)
(***************************************************************************)
\* w occurs in t with no word character next to it on either side.
HasWholeWord(t, w) ==
  \E i \in 1..Len(t) :
    LET j == i + Len(w) - 1
    IN /\ j <= Len(t)
       /\ SubSeq(t, i, j) = w
       /\ i = 1 \/ ~isWordChar(t[i - 1])
       /\ j = Len(t) \/ ~isWordChar(t[j + 1])

SuffixWords ==
  { toLowerCase(w) : w \in
      { <<"I", "N", "C">>, <<"C", "O", "R", "P">>, <<"C", "O", "R", "P", "O", "R", "A", "T", "I", "O", "N">>,
        <<"L", "T", "D">>, <<"L", "I", "M", "I", "T", "E", "D">>, <<"L", "L", "C">>, <<"C", "O">>, <<"C", "O", "M", "P", "A", "N", "Y">> } }

\* The positions of d that lie in a word of d that is a suffix word.
InSuffixWord(d) ==
  { p \in 1..Len(d) :
      \E i \in 1..p, j \in p..Len(d) :
        /\ \A q \in i..j : isWordChar(d[q])
        /\ i = 1 \/ ~isWordChar(d[i - 1])
        /\ j = Len(d) \/ ~isWordChar(d[j + 1])
        /\ SubSeq(d, i, j) \in SuffixWords }

\* The characters of d at the positions i..j that are not in dropped.
RECURSIVE KeptIn(_, _, _, _)
KeptIn(d, dropped, i, j) ==
  IF i > j THEN <<>>
  ELSE (IF i \in dropped THEN <<>> ELSE <<d[i]>>) \o KeptIn(d, dropped, i + 1, j)

\* The tokens of a description: what is left of each stretch between white
\* space once the suffix words are taken out, if it is longer than 2.
SignificantTokens(description) ==
  LET d == toLowerCase(description)
      stretches ==
        { <<i, j>> \in (1..Len(d)) \X (1..Len(d)) :
            /\ i <= j
            /\ \A q \in i..j : ~isWhiteSpace(d[q])
            /\ i = 1 \/ isWhiteSpace(d[i - 1])
            /\ j = Len(d) \/ isWhiteSpace(d[j + 1]) }
      tokens == { KeptIn(d, InSuffixWord(d), st[1], st[2]) : st \in stretches }
  IN { t \in tokens : Len(t) > 2 }

TickerInText(c) ==
  /\ c.stock.symbol # <<>>
  /\ \/ HasWholeWord(toLowerCase(c.article.headline), toLowerCase(c.stock.symbol))
     \/ HasWholeWord(toLowerCase(c.article.summary), toLowerCase(c.stock.symbol))

TokenInText(c) ==
  \E t \in SignificantTokens(c.stock.description) :
    \/ includes(toLowerCase(c.article.headline), t)
    \/ includes(toLowerCase(c.article.summary), t)

AGreatDay == <<"A", " ", "g", "r", "e", "a", "t", " ", "d", "a", "y", " ", "f", "o", "r", " ", "m", "a", "r", "k", "e", "t", "s">>

AppleUnveils == <<"A", "p", "p", "l", "e", " ", "u", "n", "v", "e", "i", "l", "s", " ", "n", "e", "w", " ", "i", "P", "h", "o", "n", "e">>

\* C25: a one-letter ticker does not make an unrelated text relevant: the
\* headline "A great day for markets", with no summary, is not relevant to
\* an instrument with the symbol "A" none of whose description tokens is in
\* the headline.
C25_OneLetterTickerNotMatched ==
  \A k \in DOMAIN relevance :
    LET c == relevance[k]
    IN (/\ c.article.headline = AGreatDay
        /\ c.article.summary = <<>>
        /\ c.stock.symbol = <<"A">>
        /\ ~TokenInText(c)) => ~c.result

\* C26: isArticleRelevant is true exactly when the headline or the summary
\* has the ticker as a whole word, or has in it a token longer than 2 of the
\* description without its suffix words, letter case ignored; "Apple unveils
\* new iPhone" is relevant to AAPL, Apple Inc; an instrument whose
\* description leaves no such token is matched by its ticker alone.
C26_RelevantExactlyWhen ==
  \A k \in DOMAIN relevance :
    LET c == relevance[k]
    IN /\ c.result = (TickerInText(c) \/ TokenInText(c))
       /\ (/\ c.article.headline = AppleUnveils
           /\ c.stock = [symbol |-> <<"A", "A", "P", "L">>, description |-> <<"A", "p", "p", "l", "e", " ", "I", "n", "c">>]) =>
            c.result
       /\ SignificantTokens(c.stock.description) = {} => (c.result = TickerInText(c))

C26_Witness ==
  \E k \in DOMAIN relevance :
    LET c == relevance[k]
    IN /\ c.article.headline = AppleUnveils
       /\ c.article.summary = <<>>
       /\ c.stock.description = <<"A", "p", "p", "l", "e", " ", "I", "n", "c">>
       /\ ~TickerInText(c)
       /\ c.result

\* ---------------------------------------------------------------------
\* Claims about the acquisition of logos
\* ---------------------------------------------------------------------

ScrapeFailed(s) == s.failure # "none"

\* C24: scrapeStockLogo never rejects; when the launch, the page, the
\* navigation, the extraction or the download has failed, or no image was
\* found, the call is in its finally block or has resolved, and with null;
\* it resolves with a path only after the file has been written.
C24_ResolvesNullOnFailure ==
  \A i \in DOMAIN logoScrape :
    LET s == logoScrape[i]
    IN /\ ScrapeFailed(s) => s.pc \in {"closePage", "closeBrowser", "resolved"} /\ s.ret = ""
       /\ s.pc = "resolved" /\ ScrapeFailed(s) => s.result = ""
       /\ s.pc = "resolved" /\ s.result # "" => s.wrote


WriteFailed(s) == s.failure = "write"

\* C30 as stated: once a download has reported the failure of a write to
\* the file it created, that file is not in the cache directory.
C30_NoPartialFileAfterWriteFailure ==
  \A i \in DOMAIN logoScrape :
    WriteFailed(logoScrape[i]) => ~Mine(logoScrape[i])

\* C30: a download whose write stream fails after the file was created
\* reports the failure (the scrape returns null) and calls fs.unlink on the
\* file without waiting for it; the file it created is in the directory
\* only while that unlink is pending or when it has failed.
C30_PartialFileUnlinkRequested ==
  \A i \in DOMAIN logoScrape :
    LET s == logoScrape[i]
    IN WriteFailed(s) =>
         /\ s.ret = ""
         /\ unlinks[s.file] # "none"
         /\ Mine(s) => unlinks[s.file] \in {"pending", "failed"}

\* A write failed, the scrape has resolved and the unlink has removed the file.
C30_Witness ==
  \E i \in DOMAIN logoScrape :
    /\ WriteFailed(logoScrape[i])
    /\ logoScrape[i].pc = "resolved"
    /\ unlinks[logoScrape[i].file] = "done"
    /\ files[logoScrape[i].file].st = "none"


InFlight(s) == s.pc # "resolved"

\* C23: on every path that acquires a logo the scrape runs under the
\* coalescer keyed by the symbol, so at most one scrape of a symbol is in
\* flight at a time and a second request awaits the call of the first.
C23_OneScrapePerSymbol ==
  \A i, j \in DOMAIN logoScrape :
    LET s == logoScrape[i]
        t == logoScrape[j]
    IN i # j /\ s.symbol = t.symbol => ~(InFlight(s) /\ InFlight(t))


\* File f has been in the directory since acquisition acq began.
InDirectorySince(acq, f) ==
  /\ f \in LogoFiles
  /\ acq.seen[f].st # "none"
  /\ files[f].st # "none"
  /\ files[f].born = acq.seen[f].born

CachedExtensions(acq) ==
  {k \in DOMAIN LOGO_EXTENSIONS :
     InDirectorySince(acq, <<normalizedQuery(acq.symbol), LOGO_EXTENSIONS[k]>>)}

\* C22: an acquisition, lazy or eager, of a symbol that has a file
\* <SYMBOL>.<ext> in the cache directory never starts or joins a scrape, and
\* it returns the reference of a file of the symbol: when it consults the
\* directory, that of the first extension it finds, which is the cached
\* file or one that comes before it in LOGO_EXTENSIONS.
C22_CachePrecedence ==
  \A a \in DOMAIN acquire :
    LET acq == acquire[a]
        symbol == normalizedQuery(acq.symbol)
    IN CachedExtensions(acq) # {} =>
         /\ acq.scrape = 0 /\ ~acq.started
         /\ \A i \in DOMAIN logoScrape : logoScrape[i].by # a
         /\ acq.logo = "" => \A k \in CachedExtensions(acq) : acq.ext <= k
         /\ acq.logo = "" /\ acq.pc # "access" =>
              /\ acq.found
              /\ acq.result = LogoRef(symbol, LOGO_EXTENSIONS[acq.ext])
         /\ acq.pc = "done" =>
              \E k \in DOMAIN LOGO_EXTENSIONS :
                acq.result = LogoRef(symbol, LOGO_EXTENSIONS[k])

\* An acquisition has found the file that the scrape of an earlier one
\* wrote, and no second scrape was started.
C22_Witness ==
  /\ Len(logoScrape) = 1
  /\ \E a \in DOMAIN acquire :
       /\ acquire[a].symbol = AAPL
       /\ acquire[a].pc = "done"
       /\ acquire[a].found
       /\ acquire[a].scrape = 0
       /\ logoScrape[1].by # a
       /\ CachedExtensions(acquire[a]) # {}


(***************************************************************************)
(* Claims about overlapping runs of the news sync                          *)
(***************************************************************************)
Fetching == {r \in DOMAIN newsRun : newsRun[r].pc = "fetching"}

\* C33: the rate limit holds across runs of the news sync: when a run starts
\* while an earlier one is still going on, at most one company-news request
\* is in flight at any time.
C33_OneRequestAcrossRuns == Cardinality(Fetching) <= 1


\* C37: an article that is stored keeps its upstream id and its owning
\* instrument in every step, also when it is returned again for the same or
\* for another tracked instrument and updated.
C37_OwnerUnchanged ==
  [][\A row \in news :
       \E kept \in news' :
         kept.finnhubId = row.finnhubId /\ kept.stockId = row.stockId]_vars

\* A run has updated, for its second instrument, the article it stored for
\* its first one.
C37_Witness ==
  \E r \in DOMAIN newsRun, row \in news :
    LET run == newsRun[r]
    IN /\ run.pc = "done"
       /\ run.i = 2
       /\ Len(run.relevant) = 1
       /\ run.relevant[1].id = row.finnhubId
       /\ run.last = [existed |-> TRUE, outcome |-> "updated"]
       /\ row.stockId = run.stocks[1].id


(***************************************************************************)
(* Claims about the article loop of fetchAndSaveNewsForStock               *)
(***************************************************************************)
SavedCount(run) == run.newCount + run.updatedCount

InArticleLoop(run) == run.pc \in {"findUnique", "updating", "creating"}

ArticleFailed(run) == run.last.outcome \in {"store", "conflict"}

\* What a step of the article loop of run r does to the article in turn.
ArticleSettles(r) ==
  /\ InArticleLoop(newsRun[r])
  /\ newsRun'[r] # newsRun[r]
  /\ ~InArticleLoop(newsRun'[r]) \/ newsRun'[r].a # newsRun[r].a

\* C38: when the lookup or the write of one relevant article fails, the
\* store is left as it was and the article is counted neither as new nor as
\* updated; the loop goes on with the next relevant article of the
\* instrument; an article that is written is counted once; and the total of
\* the instrument, which is added to the total of the run, is the number of
\* articles inserted or updated.
C38_ArticleFailureIsolated ==
  [][\A r \in DOMAIN newsRun :
       ArticleSettles(r) =>
         LET run == newsRun[r]
             after == newsRun'[r]
         IN /\ ArticleFailed(after) =>
                 news' = news /\ SavedCount(after) = SavedCount(run)
            /\ ~ArticleFailed(after) =>
                 /\ \E row \in news' :
                      /\ row.finnhubId = run.relevant[run.a].id
                      /\ row.url = run.relevant[run.a].url
                      /\ row.headline = run.relevant[run.a].headline
                 /\ SavedCount(after) = SavedCount(run) + 1
            /\ run.a < Len(run.relevant) =>
                 /\ after.pc = "findUnique"
                 /\ after.a = run.a + 1
                 /\ after.i = run.i
            /\ run.a = Len(run.relevant) =>
                 /\ after.pc \in {"delay", "done"}
                 /\ after.totalArticles =
                      plus(run.totalArticles, Num(SavedCount(after)))]_vars

\* The first relevant article of an instrument met a conflict and the second
\* one was inserted: the instrument ends with one article counted.
C38_Witness ==
  \E r \in DOMAIN newsRun :
    LET run == newsRun[r]
    IN /\ run.pc \in {"delay", "done"}
       /\ Len(run.relevant) = 2
       /\ run.a = 2
       /\ run.last.outcome = "new"
       /\ SavedCount(run) = 1
       /\ \E row \in news : row.url = run.relevant[1].url /\ row.finnhubId # run.relevant[1].id


(***************************************************************************)
(* Claims about addOrRemoveStock                                           *)
(***************************************************************************)
StockExists(id) == \E row \in stocks : row.id = id

\* C39: a call of addOrRemoveStock fails only with 'Stock not found', for a
\* stock that does not exist; after any interleaving of concurrent calls
\* every call for a stock that exists has returned 'added' or 'removed'.
C39_EveryCallAddsOrRemoves ==
  \A t \in DOMAIN toggle :
    /\ toggle[t].pc = "failed" =>
         toggle[t].error = "Stock not found" /\ ~StockExists(toggle[t].stockId)
    /\ toggle[t].pc = "done" => toggle[t].action \in {"added", "removed"}


(***************************************************************************)
(* Claims about the catalog sync and the logos                             *)
(***************************************************************************)
Upserts == \E c \in DOMAIN catalog : catalog'[c].writes # catalog[c].writes

StartedEager == {a \in DOMAIN acquire' : a \notin DOMAIN acquire /\ acquire'[a].path = "eager"}

BeingClosed == {closer[c].sess : c \in {k \in DOMAIN closer : closer[k].st = "closing"}}

\* C34: once closeBrowser has been called, a call of initialize, getBrowser
\* or createPage is never given the session being closed.
C34_ClosingSessionNotReturned ==
  [][\A i \in DOMAIN req' :
       (i \notin DOMAIN req /\ req'[i].sess # 0) => req'[i].sess \notin BeingClosed]_vars


(***************************************************************************)
(* Claims about downloadAndSaveImage                                       *)
(***************************************************************************)
AwaitsResponse(i) ==
  i \in DOMAIN logoScrape /\ logoScrape[i].pc \in {"mkdir", "request"}

\* C31: a download follows a bounded chain of redirects only: whatever the
\* server answers, a download that awaits a response has in the end saved
\* the image or failed.
C31_RedirectsEnd ==
  \A i \in 1..MaxAcquires : AwaitsResponse(i) ~> ~AwaitsResponse(i)

\* The extension the content-type header names (lines 131-143), <<>> when it
\* names none of the known image types.
contentTypeExtension(contentType) ==
  IF includes(contentType, <<"j", "p", "e", "g">>) \/ includes(contentType, <<"j", "p", "g">>)
  THEN <<".", "j", "p", "g">>
  ELSE IF includes(contentType, <<"p", "n", "g">>) THEN <<".", "p", "n", "g">>
  ELSE IF includes(contentType, <<"s", "v", "g">>) THEN <<".", "s", "v", "g">>
  ELSE IF includes(contentType, <<"g", "i", "f">>) THEN <<".", "g", "i", "f">>
  ELSE IF includes(contentType, <<"w", "e", "b", "p">>) THEN <<".", "w", "e", "b", "p">>
  ELSE <<>>

\* The extension the end of the URL path names (lines 145-157), <<>> when it
\* names none.
urlPathExtension(pathname) ==
  LET urlPath == toLowerCase(pathname)
  IN IF endsWith(urlPath, <<".", "j", "p", "g">>) \/ endsWith(urlPath, <<".", "j", "p", "e", "g">>)
     THEN <<".", "j", "p", "g">>
     ELSE IF endsWith(urlPath, <<".", "p", "n", "g">>) THEN <<".", "p", "n", "g">>
     ELSE IF endsWith(urlPath, <<".", "s", "v", "g">>) THEN <<".", "s", "v", "g">>
     ELSE IF endsWith(urlPath, <<".", "g", "i", "f">>) THEN <<".", "g", "i", "f">>
     ELSE IF endsWith(urlPath, <<".", "w", "e", "b", "p">>) THEN <<".", "w", "e", "b", "p">>
     ELSE <<>>

\* C32: the file of a network download takes the extension that the
\* content-type header names; when the header is absent or names no known
\* image type, the extension that the end of the URL path names; and .png
\* when neither names one.
C32_ExtensionOrder ==
  \A i \in DOMAIN saved :
    saved[i].kind = "network" =>
      saved[i].filename = saved[i].ticker \o
        ( IF contentTypeExtension(saved[i].contentType) # <<>>
          THEN contentTypeExtension(saved[i].contentType)
          ELSE IF urlPathExtension(saved[i].pathname) # <<>>
          THEN urlPathExtension(saved[i].pathname)
          ELSE <<".", "p", "n", "g">> )

\* C35: whenever downloadAndSaveImage returns a path for a symbol, from a
\* network URL or from a data URL, checkStockLogo of that symbol over the
\* file it wrote finds a file: the file is named <SYMBOL>.<ext> with ext
\* one of LOGO_EXTENSIONS.
C35_SavedFileIsFound ==
  \A i \in DOMAIN saved :
    saved[i].returned => checkStockLogo({saved[i].filename}, saved[i].ticker) # 0

=============================================================================
